---- MODULE Spec2Model ----
(***************************************************************************)
(* Usage ledger, history log and chat pipelines of the chat-relay server.  *)
(*                                                                         *)
(* The store is one SQLite connection shared by every request context      *)
(* (db.js keeps it in the module variable `db`).  Each statement runs      *)
(* atomically; a request context can be overtaken by any other context at  *)
(* every `await`, that is between any two of its statements.  A            *)
(* transaction opened with BEGIN belongs to the connection, not to the     *)
(* context that opened it: statements of other contexts issued meanwhile   *)
(* run inside it, and ROLLBACK undoes them too.                            *)
(***************************************************************************)
EXTENDS Integers, Sequences, FiniteSets, TLC

\* ---------------------------------------------------------------- bounds
NProcs == 2
MaxFrags == 2
MaxRequests == 2
NConns == 3
MaxTime == 1

\* ------------------------------------------------------ program constants
initialLimit == 10000
maxExtensionAmount == 20000

Procs == 1..NProcs

\* The WebSocket handles the server can be given by its transport.
Conns == 1..NConns

\* JavaScript null / an absent usageMetadata count.
Null == -1

\* Text is a sequence of characters, a character is a number.
Prompts == { <<>>, <<0, 0>> }
Responses == { <<1, 2, 3>> }
\* The i-th fragment of a model stream: empty text, or two characters i.
Fragments(i) == { <<>>, <<i, i>> }
\* usageMetadata.totalTokenCount of the model's final result (Null: absent):
\* the values concurrent runs draw from, and those of requests served alone.
GeminiCounts == { Null, 11000 }
TokenCounts == { Null, 0, 4000, 11000 }
\* The amount of an extend request, the JSON number m * 10^e: the values
\* concurrent requests draw from, and those of requests served alone.
ExtendAmounts ==
  { [m |-> 0, e |-> 0], [m |-> 5, e |-> 3], [m |-> 25, e |-> 3] }
RequestAmounts ==
  ExtendAmounts \cup { [m |-> -5, e |-> 0], [m |-> 1, e |-> 21] }
Formats == { "json", "text" }

\* ------------------------------------------------------------ variables
VARIABLES
  db,        \* working state of the connection: usage_stats row, chat_history, sqlite_sequence
  txn,       \* the connection's open transaction, with the state ROLLBACK restores
  pc,        \* pc[p]: the await a request context is suspended at
  kind,      \* kind[p]: the handler the context runs
  loc,       \* loc[p]: the handler's local variables
  sink,      \* sink[p]: state of the caller's ReadableStream (streaming runs)
  sent,      \* sent[p]: what controller.enqueue has put on the caller's stream
  produced,  \* produced[p]: the fragments the model stream has yielded so far
  log,       \* log[p]: the commit steps the run has completed, in order
  failedAt,  \* failedAt[p]: the step at which the run's error was raised
  result,    \* result[p]: what the handler answered its caller
  failures,  \* number of statements that have failed so far
  history,   \* the requests a context has finished serving, with their answers
  atCall,    \* atCall[p]: the ledger and the history log as the request found them
  issued,    \* the largest chat_history id handed out so far
  wsClients, \* the registry Map: wsClients[ws] is the clientInfo stored for handle ws
  readyState,  \* readyState[ws]: the transport's state of the handle
  closeEvents, \* handles whose 'close' event is emitted and not yet handled
  received,  \* received[ws]: the last message the peer of the handle was sent
  now,       \* the clock: new Date() and CURRENT_TIMESTAMP
  lastCall,  \* the registry operation that has just returned: what it found, tried and returned
  bcast,     \* bcast[p]: the broadcastUpdate() the context p has set off
  upd,       \* the handleRequestUpdate() call serving the subscriber's request
  seen,      \* the states the ledger and the history log have been in so far
  shutdown   \* the closeAllConnections() call: its position, the handles it closed and dropped

ledgerVars == <<db, txn, pc, kind, loc, sink, sent, produced, log, failedAt,
                result, failures>>
wsVars == <<wsClients, readyState, closeEvents, received, lastCall>>
auxVars == <<upd, seen, shutdown>>

vars == <<db, txn, pc, kind, loc, sink, sent, produced, log, failedAt, result,
          failures, history, atCall, issued, wsClients, readyState, closeEvents,
          received, now, lastCall, bcast, upd, seen, shutdown>>

\* ------------------------------------------------------- pure functions
\* tokenUtils.js simpleTokenEstimate: Math.ceil(text.length / 4), 0 for "".
simpleTokenEstimate(text) ==
  IF Len(text) = 0 THEN 0 ELSE (Len(text) + 3) \div 4

\* JavaScript truthiness of a number-or-null.
Truthy(x) == x # Null /\ x # 0

\* tokenUtils.js extractGeminiTokenCount: totalTokenCount || (promptTokenCount
\* + candidatesTokenCount) on each path; with the other two counts absent the
\* sum is NaN, which like null is falsy for the caller (Null stands for both).
extractGeminiTokenCount(totalTokenCount) ==
  IF Truthy(totalTokenCount) THEN totalTokenCount ELSE Null

\* parseInt(amount): the number is converted to a string and the leading
\* integer of the string is read.  Below 10^21 the string is the decimal
\* expansion; from 10^21 on it is "me+21" and the leading integer is m.
parseInt(x) == IF x.e < 21 THEN x.m * 10^(x.e) ELSE x.m

\* db.js addChatEntry: geminiTokenCount || simpleTokenEstimate(userInput + response)
TokenCount(userInput, response, geminiTokenCount) ==
  IF Truthy(geminiTokenCount) THEN geminiTokenCount
  ELSE simpleTokenEstimate(userInput \o response)

MaxOf(S) == CHOOSE x \in S : \A y \in S : y <= x

RECURSIVE SumTokens(_)
SumTokens(chats) ==
  IF chats = <<>> THEN 0 ELSE Head(chats).tokens + SumTokens(Tail(chats))

RECURSIVE Flatten(_)
Flatten(chunks) ==
  IF chunks = <<>> THEN <<>> ELSE Head(chunks) \o Flatten(Tail(chunks))

\* ------------------------------------------------------- SQL statements
\* INTEGER PRIMARY KEY AUTOINCREMENT: one more than the largest of the
\* sqlite_sequence value and the largest rowid present.
NextId(d) ==
  MaxOf({d.seq} \cup { d.chats[i].id : i \in 1..Len(d.chats) }) + 1

\* INSERT INTO chat_history (...) VALUES (...); the timestamp column takes
\* its default, CURRENT_TIMESTAMP.
InsertChat(d, owner, userInput, response, tokenCount) ==
  [d EXCEPT !.chats = Append(@, [id |-> NextId(d), owner |-> owner,
                                 user_input |-> userInput, response |-> response,
                                 tokens |-> tokenCount, timestamp |-> now]),
            !.seq = NextId(d)]

\* Mutant: the UPDATE overwrites the counter instead of adding to it.
AddTokensUsedOverwrite(d, tokenCount) == [d EXCEPT !.used = tokenCount]

\* UPDATE usage_stats SET total_tokens_used = total_tokens_used + ?
AddTokensUsed(d, tokenCount) == [d EXCEPT !.used = @ + tokenCount]

\* UPDATE usage_stats SET total_limit = ?
SetLimit(d, newLimit) == [d EXCEPT !.limit = newLimit]

\* DELETE FROM chat_history
DeleteChats(d) == [d EXCEPT !.chats = <<>>]

\* Mutant: the reset statement also puts the limit back to its initial value.
ResetTokensUsedAndLimit(d) == [d EXCEPT !.used = 0, !.limit = initialLimit]

\* UPDATE usage_stats SET total_tokens_used = 0
ResetTokensUsed(d) == [d EXCEPT !.used = 0]

\* ORDER BY ch.timestamp DESC: the orders the rows can be returned in.  The
\* timestamp is the only sort key, so rows of equal timestamp come in an
\* order the statement does not fix.
ByTimestampDesc(chats) ==
  LET n == Len(chats)
      perms == { f \in [1..n -> 1..n] :
                   /\ \A i, j \in 1..n : i # j => f[i] # f[j]
                   /\ \A i, j \in 1..n :
                        i < j => chats[f[i]].timestamp >= chats[f[j]].timestamp }
  IN { [i \in 1..n |-> chats[f[i]]] : f \in perms }

\* SELECT ch.* FROM chat_history ch ORDER BY ch.timestamp DESC LIMIT ?
\* the results the query can return: the first `limit` rows of such an order.
\* getRecentChats(limit = 10)
DefaultLimit == 10

getRecentChats(d, limit) ==
  { SubSeq(rows, 1, IF limit < Len(rows) THEN limit ELSE Len(rows)) :
      rows \in ByTimestampDesc(d.chats) }

\* Mutant: the clear leaves the identifier sequence where it is.
DeleteSequenceKeeps(d) == d

\* DELETE FROM sqlite_sequence WHERE name = "chat_history"
DeleteSequence(d) == [d EXCEPT !.seq = 0]

NoLocals ==
  [msg |-> <<>>, resp |-> <<>>, total |-> Null, gemini |-> Null, tokens |-> 0,
   chatId |-> 0, req |-> [m |-> 0, e |-> 0], amount |-> 0, curLimit |-> 0,
   fmt |-> "json"]

NoCall == [used |-> 0, limit |-> 0, chats |-> <<>>]

\* The locals once the handler has returned: only the request's format and
\* amount remain.
Returned(l) == [NoLocals EXCEPT !.fmt = l.fmt, !.req = l.req]

NoResult ==
  [status |-> "none", previousLimit |-> 0, newLimit |-> 0, amountAdded |-> 0,
   tokensAdded |-> 0]

\* A message on a WebSocket: its type tag and, for an update, the usage
\* figures and the recent history it carries.
NoMessage == [type |-> "none", used |-> 0, limit |-> 0, chats |-> <<>>]
Message(type) == [NoMessage EXCEPT !.type = type]

\* Mutant: the count of sends starts at one.
NoPassCountsOne ==
  [attempts |-> [c \in Conns |-> 0], delivered |-> {}, sent |-> 1, closed |-> 0]

\* What one pass over the registry has counted so far.
NoPass ==
  [attempts |-> [c \in Conns |-> 0], delivered |-> {}, sent |-> 0, closed |-> 0]

NoOperation ==
  [op |-> "none", ws |-> 0, frame |-> "none", data |-> NoMessage,
   before |-> [c \in {} |-> [lastActivity |-> 0]],
   states |-> [c \in Conns |-> "NEW"], at |-> 0, threshold |-> 0,
   failed |-> {}, pass |-> NoPass, returned |-> 0, ok |-> FALSE,
   wire |-> <<>>]

NoBroadcast == [pc |-> "none", used |-> 0, limit |-> 0]

\* The ledger and the history log of a state of the store.
Snapshot(d) == [used |-> d.used, limit |-> d.limit, chats |-> d.chats]

NoShutdown == [pc |-> "none", asked |-> {}, dropped |-> {}]

\* No requestUpdate is being served and closeAllConnections has not been
\* called.
InitCalls ==
  /\ upd = NoBroadcast
  /\ seen = {Snapshot(db)}
  /\ shutdown = NoShutdown

\* No WebSocket has connected yet and no broadcast is under way.
InitRegistry ==
  /\ wsClients = [c \in {} |-> [lastActivity |-> 0]]
  /\ readyState = [c \in Conns |-> "NEW"]
  /\ closeEvents = {}
  /\ received = [c \in Conns |-> NoMessage]
  /\ lastCall = NoOperation
  /\ bcast = [p \in Procs |-> NoBroadcast]

Init ==
  /\ now = 0
  /\ issued = 0
  /\ InitRegistry
  /\ db = [used |-> 0, limit |-> initialLimit, chats |-> <<>>, seq |-> 0]
  /\ txn = [active |-> FALSE, saved |-> db]
  /\ pc = [p \in Procs |-> "idle"]
  /\ kind = [p \in Procs |-> "none"]
  /\ loc = [p \in Procs |-> NoLocals]
  /\ sink = [p \in Procs |-> "none"]
  /\ sent = [p \in Procs |-> <<>>]
  /\ produced = [p \in Procs |-> <<>>]
  /\ log = [p \in Procs |-> <<>>]
  /\ failedAt = [p \in Procs |-> "none"]
  /\ result = [p \in Procs |-> NoResult]
  /\ failures = 0
  /\ history = <<>>
  /\ atCall = [p \in Procs |-> NoCall]
  /\ InitCalls

\* The server started over the database file an earlier run left behind:
\* CREATE TABLE IF NOT EXISTS keeps the history, and the usage_stats row that
\* is found is kept as it is.
InitRestarted ==
  /\ now = 0
  /\ issued = 1
  /\ InitRegistry
  /\ db = AddTokensUsed(
            InsertChat([used |-> 0, limit |-> initialLimit, chats |-> <<>>, seq |-> 0],
                       0, <<0, 0>>, <<1, 2, 3>>, 2), 2)
  /\ txn = [active |-> FALSE, saved |-> db]
  /\ pc = [p \in Procs |-> "idle"]
  /\ kind = [p \in Procs |-> "none"]
  /\ loc = [p \in Procs |-> NoLocals]
  /\ sink = [p \in Procs |-> "none"]
  /\ sent = [p \in Procs |-> <<>>]
  /\ produced = [p \in Procs |-> <<>>]
  /\ log = [p \in Procs |-> <<>>]
  /\ failedAt = [p \in Procs |-> "none"]
  /\ result = [p \in Procs |-> NoResult]
  /\ failures = 0
  /\ history = <<>>
  /\ atCall = [p \in Procs |-> NoCall]
  /\ InitCalls

\* ------------------------------------------------------------- helpers
\* A storage failure (the Store's error) may strike any statement.
CanFail == TRUE

InFlight(p) == pc[p] \notin {"idle", "done"}

\* The catch block of the chat handlers.  Non-streaming: answer 500.
\* Streaming: in json format enqueue an error line, then controller.error();
\* on a stream that is no longer readable enqueue throws and error() is a no-op.
CatchSent(p) ==
  IF kind[p] = "stream" /\ loc[p].fmt = "json" /\ sink[p] = "open"
  THEN Append(sent[p], [type |-> "error", text |-> <<>>])
  ELSE sent[p]

\* Mutant: the catch block leaves the caller's stream as it finds it.
CatchSinkKeeps(p) == sink[p]

CatchSink(p) ==
  IF kind[p] = "stream" /\ sink[p] = "open" THEN "errored" ELSE sink[p]

Raise(p, step) ==
  /\ failedAt' = [failedAt EXCEPT ![p] = step]
  /\ sent' = [sent EXCEPT ![p] = CatchSent(p)]
  /\ sink' = [sink EXCEPT ![p] = CatchSink(p)]
  /\ result' = [result EXCEPT ![p].status = "error"]
  /\ loc' = [loc EXCEPT ![p] = Returned(@)]
  /\ produced' = [produced EXCEPT ![p] = <<>>]
  /\ pc' = [pc EXCEPT ![p] = "done"]

\* A statement that fails changes nothing in the store.
StorageFailure(p, step) ==
  /\ CanFail
  /\ failures' = failures + 1
  /\ Raise(p, step)
  /\ UNCHANGED <<db, txn, kind, log>>

\* ------------------------------------------------ non-streaming chat run
\* handleNonStreamingChat up to the model call.
EnterChat(p) ==
  /\ \E msg \in Prompts :
       IF msg = <<>>
       THEN /\ result' = [result EXCEPT ![p].status = "error"]
            /\ failedAt' = [failedAt EXCEPT ![p] = "input"]
            /\ pc' = [pc EXCEPT ![p] = "done"]
            /\ kind' = [kind EXCEPT ![p] = "chat"]
            /\ UNCHANGED loc
       ELSE /\ kind' = [kind EXCEPT ![p] = "chat"]
            /\ loc' = [loc EXCEPT ![p].msg = msg]
            /\ pc' = [pc EXCEPT ![p] = "chatGen"]
            /\ UNCHANGED <<result, failedAt>>
  /\ UNCHANGED <<db, txn, sink, sent, produced, log, failures>>

\* POST /api/chat/complete, which calls handleNonStreamingChat at once.
StartChat(p) == pc[p] = "idle" /\ EnterChat(p)

\* await model.generateContent(userMessage): a complete text and the count
\* extractGeminiTokenCount finds in it, or an upstream failure.
GenerateContent(p, counts) ==
  /\ pc[p] = "chatGen"
  /\ \/ /\ Raise(p, "generate")
        /\ UNCHANGED <<db, txn, kind, log, failures>>
     \/ /\ \E resp \in Responses, g \in counts :
             loc' = [loc EXCEPT ![p].resp = resp, ![p].total = g,
                                ![p].gemini = extractGeminiTokenCount(g)]
        /\ pc' = [pc EXCEPT ![p] = "insert"]
        /\ UNCHANGED <<db, txn, kind, sink, sent, produced, log, failedAt, result, failures>>

ChatGenerate(p) == GenerateContent(p, GeminiCounts)

\* --------------------------------------------------------- addChatEntry
\* Mutant: addChatEntry increments the ledger before it appends the entry.
AppendHistoryIncrementsFirst(p) ==
  /\ pc[p] = "insert"
  /\ \/ StorageFailure(p, "append")
     \/ /\ db' = AddTokensUsed(db, TokenCount(loc[p].msg, loc[p].resp, loc[p].gemini))
        /\ loc' = [loc EXCEPT ![p].tokens = TokenCount(loc[p].msg, loc[p].resp, loc[p].gemini)]
        /\ log' = [log EXCEPT ![p] = Append(@, "increment")]
        /\ pc' = [pc EXCEPT ![p] = "update"]
        /\ UNCHANGED <<txn, kind, sink, sent, produced, failedAt, result, failures>>

\* Mutant: a failed INSERT is swallowed and the commit goes on.
AppendHistoryIgnoresFailure(p) ==
  /\ pc[p] = "insert"
  /\ \/ /\ CanFail
        /\ failures' = failures + 1
        /\ failedAt' = [failedAt EXCEPT ![p] = "append"]
        /\ loc' = [loc EXCEPT ![p].tokens = TokenCount(loc[p].msg, loc[p].resp, loc[p].gemini)]
        /\ pc' = [pc EXCEPT ![p] = "update"]
        /\ UNCHANGED <<db, txn, kind, sink, sent, produced, log, result>>
     \/ /\ db' = InsertChat(db, p, loc[p].msg, loc[p].resp,
                            TokenCount(loc[p].msg, loc[p].resp, loc[p].gemini))
        /\ loc' = [loc EXCEPT ![p].tokens = TokenCount(loc[p].msg, loc[p].resp, loc[p].gemini),
                              ![p].chatId = NextId(db)]
        /\ log' = [log EXCEPT ![p] = Append(@, "append")]
        /\ pc' = [pc EXCEPT ![p] = "update"]
        /\ UNCHANGED <<txn, kind, sink, sent, produced, failedAt, result, failures>>

\* The INSERT of addChatEntry.
AppendHistory(p) ==
  /\ pc[p] = "insert"
  /\ \/ StorageFailure(p, "append")
     \/ /\ db' = InsertChat(db, p, loc[p].msg, loc[p].resp,
                            TokenCount(loc[p].msg, loc[p].resp, loc[p].gemini))
        /\ loc' = [loc EXCEPT ![p].tokens = TokenCount(loc[p].msg, loc[p].resp, loc[p].gemini),
                              ![p].chatId = NextId(db)]
        /\ log' = [log EXCEPT ![p] = Append(@, "append")]
        /\ pc' = [pc EXCEPT ![p] = "update"]
        /\ UNCHANGED <<txn, kind, sink, sent, produced, failedAt, result, failures>>

\* Mutant: a failed UPDATE is retried and applied before the error is thrown.
IncrementUsageRetries(p) ==
  /\ pc[p] = "update"
  /\ \/ /\ CanFail
        /\ failures' = failures + 1
        /\ db' = AddTokensUsed(db, loc[p].tokens)
        /\ Raise(p, "increment")
        /\ UNCHANGED <<txn, kind, log>>
     \/ /\ db' = AddTokensUsed(db, loc[p].tokens)
        /\ log' = [log EXCEPT ![p] = Append(@, "increment")]
        /\ result' = [result EXCEPT ![p].tokensAdded = loc[p].tokens]
        /\ pc' = [pc EXCEPT ![p] = "usage"]
        /\ UNCHANGED <<txn, kind, loc, sink, sent, produced, failedAt, failures>>

\* Mutant: the UPDATE is refused when it would take consumed above the limit.
IncrementUsageEnforcesLimit(p) ==
  /\ pc[p] = "update"
  /\ \/ StorageFailure(p, "increment")
     \/ /\ db.used + loc[p].tokens > db.limit
        /\ Raise(p, "increment")
        /\ UNCHANGED <<db, txn, kind, log, failures>>
     \/ /\ db.used + loc[p].tokens <= db.limit
        /\ db' = AddTokensUsed(db, loc[p].tokens)
        /\ log' = [log EXCEPT ![p] = Append(@, "increment")]
        /\ result' = [result EXCEPT ![p].tokensAdded = loc[p].tokens]
        /\ pc' = [pc EXCEPT ![p] = "usage"]
        /\ UNCHANGED <<txn, kind, loc, sink, sent, produced, failedAt, failures>>

\* The UPDATE of addChatEntry; addChatEntry then returns {chatId, tokensAdded}.
IncrementUsage(p) ==
  /\ pc[p] = "update"
  /\ \/ StorageFailure(p, "increment")
     \/ /\ db' = AddTokensUsed(db, loc[p].tokens)
        /\ log' = [log EXCEPT ![p] = Append(@, "increment")]
        /\ result' = [result EXCEPT ![p].tokensAdded = loc[p].tokens]
        /\ pc' = [pc EXCEPT ![p] = "usage"]
        /\ UNCHANGED <<txn, kind, loc, sink, sent, produced, failedAt, failures>>

\* await getTokenUsage() after the commit, then the synchronous tail of the
\* handler.  Non-streaming: broadcastUpdate(), answer 200.  Streaming: in json
\* format enqueue the done line, controller.close(), broadcastUpdate(); the
\* enqueue (json) or the close (text) throws on a stream the caller cancelled.
FinishChat(p) ==
  /\ pc[p] = "usage"
  /\ \/ StorageFailure(p, "usage")
     \/ /\ kind[p] = "stream" /\ sink[p] # "open"
        /\ Raise(p, IF loc[p].fmt = "json" THEN "enqueue" ELSE "close")
        /\ UNCHANGED <<db, txn, kind, log, failures>>
     \/ /\ kind[p] = "stream" => sink[p] = "open"
        /\ sent' = [sent EXCEPT ![p] =
                      IF kind[p] = "stream" /\ loc[p].fmt = "json"
                      THEN Append(@, [type |-> "done", text |-> <<>>,
                                      totalTokensUsed |-> db.used,
                                      tokensAdded |-> result[p].tokensAdded])
                      ELSE @]
        /\ sink' = [sink EXCEPT ![p] = IF kind[p] = "stream" THEN "closed" ELSE @]
        /\ log' = [log EXCEPT ![p] = Append(@, "broadcast")]
        /\ result' = [result EXCEPT ![p].status = "ok"]
        /\ loc' = [loc EXCEPT ![p] = Returned(@)]
        /\ produced' = [produced EXCEPT ![p] = <<>>]
        /\ pc' = [pc EXCEPT ![p] = "done"]
        /\ UNCHANGED <<db, txn, kind, failedAt, failures>>

\* -------------------------------------------------------- streaming run
\* handleStreamingChat up to the construction of the ReadableStream, whose
\* start() begins at once.
EnterStream(p) ==
  /\ \E msg \in Prompts, fmt \in Formats :
       IF msg = <<>>
       THEN /\ result' = [result EXCEPT ![p].status = "error"]
            /\ failedAt' = [failedAt EXCEPT ![p] = "input"]
            /\ pc' = [pc EXCEPT ![p] = "done"]
            /\ kind' = [kind EXCEPT ![p] = "stream"]
            /\ UNCHANGED <<loc, sink>>
       ELSE /\ kind' = [kind EXCEPT ![p] = "stream"]
            /\ loc' = [loc EXCEPT ![p].msg = msg, ![p].fmt = fmt]
            /\ sink' = [sink EXCEPT ![p] = "open"]
            /\ pc' = [pc EXCEPT ![p] = "generate"]
            /\ UNCHANGED <<result, failedAt>>
  /\ UNCHANGED <<db, txn, sent, produced, log, failures>>

\* await model.generateContentStream([userMessage])
GenerateStream(p) ==
  /\ pc[p] = "generate"
  /\ \/ /\ Raise(p, "generate")
        /\ UNCHANGED <<db, txn, kind, log, failures>>
     \/ /\ pc' = [pc EXCEPT ![p] = "stream"]
        /\ UNCHANGED <<db, txn, kind, loc, sink, sent, produced, log, failedAt, result, failures>>

\* Mutant: the fragment is put in front of the accumulated text.
ForwardFragmentPrepends(text, fullResponse, queue, open) ==
  IF text = <<>>
  THEN [resp |-> fullResponse, sent |-> queue, threw |-> FALSE]
  ELSE IF open
       THEN [resp |-> text \o fullResponse,
             sent |-> Append(queue, [type |-> "chunk", text |-> text]),
             threw |-> FALSE]
       ELSE [resp |-> text \o fullResponse, sent |-> queue, threw |-> TRUE]

\* What one iteration of the for-await loop does with a fragment:
\* [resp: the new fullResponse, sent: the new stream queue, threw: enqueue threw].
ForwardFragment(text, fullResponse, queue, open) ==
  IF text = <<>>
  THEN [resp |-> fullResponse, sent |-> queue, threw |-> FALSE]
  ELSE IF open
       THEN [resp |-> fullResponse \o text,
             sent |-> Append(queue, [type |-> "chunk", text |-> text]),
             threw |-> FALSE]
       ELSE [resp |-> fullResponse \o text, sent |-> queue, threw |-> TRUE]

\* One iteration of `for await (const chunk of result.stream)`.
StreamChunk(p) ==
  /\ pc[p] = "stream"
  /\ Len(produced[p]) < MaxFrags
  /\ \E text \in Fragments(Len(produced[p]) + 1) :
       LET r == ForwardFragment(text, loc[p].resp, sent[p], sink[p] = "open") IN
       /\ IF r.threw
          THEN Raise(p, "enqueue")
          ELSE /\ produced' = [produced EXCEPT ![p] = Append(@, text)]
               /\ loc' = [loc EXCEPT ![p].resp = r.resp]
               /\ sent' = [sent EXCEPT ![p] = r.sent]
               /\ UNCHANGED <<pc, sink, failedAt, result>>
  /\ UNCHANGED <<db, txn, kind, log, failures>>

\* Mutant: the model's mid-stream failure is swallowed and the run commits
\* what it has accumulated.
StreamThrowSwallowed(p) ==
  /\ pc[p] = "stream"
  /\ failedAt' = [failedAt EXCEPT ![p] = "stream"]
  /\ pc' = [pc EXCEPT ![p] = "insert"]
  /\ UNCHANGED <<db, txn, kind, loc, sink, sent, produced, log, result, failures>>

\* The model stream throws before it is exhausted.
StreamThrow(p) ==
  /\ pc[p] = "stream"
  /\ Raise(p, "stream")
  /\ UNCHANGED <<db, txn, kind, log, failures>>

\* The model stream is exhausted; await result.response and read its count.
StreamEnd(p) ==
  /\ pc[p] = "stream"
  /\ \E g \in GeminiCounts :
       loc' = [loc EXCEPT ![p].total = g, ![p].gemini = extractGeminiTokenCount(g)]
  /\ pc' = [pc EXCEPT ![p] = "insert"]
  /\ UNCHANGED <<db, txn, kind, sink, sent, produced, log, failedAt, result, failures>>

\* The caller cancels the response stream or its transport closes.
CallerCancel(p) ==
  /\ kind[p] = "stream"
  /\ InFlight(p)
  /\ sink[p] = "open"
  /\ sink' = [sink EXCEPT ![p] = "cancelled"]
  /\ UNCHANGED <<db, txn, pc, kind, loc, sent, produced, log, failedAt, result, failures>>

\* ---------------------------------------------------------------- extend
\* Mutant: the argument check lets an amount of 0 through.
ValidExtensionAllowsZero(amount) == amount >= 0 /\ amount <= maxExtensionAmount

\* The argument checks every extend entry path makes before touching the
\* store: amount <= 0 is invalid, amount > maxExtensionAmount is refused.
ValidExtension(amount) == amount > 0 /\ amount <= maxExtensionAmount

\* Entry of an extend: POST /api/admin/extend-limit -> adminService
\* .extendTokenLimit -> db.extendTokenLimit ("extendDb") or the WebSocket
\* handler handleExtendLimit ("extendWs").  Both read the amount with
\* parseInt and check what parseInt returned.
ExtendRequest(p, amounts) ==
  /\ pc[p] = "idle"
  /\ \E k \in {"extendDb", "extendWs"}, amount \in amounts :
       /\ kind' = [kind EXCEPT ![p] = k]
       /\ IF ValidExtension(parseInt(amount))
          THEN /\ loc' = [loc EXCEPT ![p].req = amount, ![p].amount = parseInt(amount)]
               /\ pc' = [pc EXCEPT ![p] = "extRead"]
               /\ UNCHANGED <<result, failedAt>>
          ELSE /\ pc' = [pc EXCEPT ![p] = "done"]
               /\ result' = [result EXCEPT ![p].status = "error"]
               /\ failedAt' = [failedAt EXCEPT ![p] = "input"]
               /\ loc' = [loc EXCEPT ![p].req = amount]
  /\ UNCHANGED <<db, txn, sink, sent, produced, log, failures>>

StartExtend(p) == ExtendRequest(p, ExtendAmounts)

\* SELECT total_limit FROM usage_stats LIMIT 1
ExtendRead(p) ==
  /\ pc[p] = "extRead"
  /\ \/ StorageFailure(p, "read")
     \/ /\ loc' = [loc EXCEPT ![p].curLimit = db.limit]
        /\ pc' = [pc EXCEPT ![p] = "extWrite"]
        /\ UNCHANGED <<db, txn, kind, sink, sent, produced, log, failedAt, result, failures>>

\* Mutant: the amount is taken off the limit.
ExtendedLimitSubtracts(currentLimit, amount) == currentLimit - amount

\* newLimit = currentLimit + amount; UPDATE usage_stats SET total_limit = newLimit
ExtendedLimit(currentLimit, amount) == currentLimit + amount

ExtendWrite(p) ==
  /\ pc[p] = "extWrite"
  /\ \/ StorageFailure(p, "write")
     \/ /\ db' = SetLimit(db, ExtendedLimit(loc[p].curLimit, loc[p].amount))
        /\ log' = [log EXCEPT ![p] = Append(@, "extend")]
        /\ pc' = [pc EXCEPT ![p] = "extUsage"]
        /\ UNCHANGED <<txn, kind, loc, sink, sent, produced, failedAt, result, failures>>

\* await getTokenUsage(), then the success answer {previousLimit, newLimit}
\* and the broadcast (broadcastUpdate / broadcastToOthers).
ExtendFinish(p) ==
  /\ pc[p] = "extUsage"
  /\ \/ StorageFailure(p, "usage")
     \/ /\ result' = [result EXCEPT ![p].status = "ok",
                                    ![p].previousLimit = loc[p].curLimit,
                                    ![p].newLimit = db.limit,
                                    ![p].amountAdded = loc[p].amount]
        /\ log' = [log EXCEPT ![p] = Append(@, "broadcast")]
        /\ loc' = [loc EXCEPT ![p] = Returned(@)]
        /\ pc' = [pc EXCEPT ![p] = "done"]
        /\ UNCHANGED <<db, txn, kind, sink, sent, produced, failedAt, failures>>

\* ----------------------------------------------------------------- clear
\* A failing step of a clear enters the catch block, which issues ROLLBACK.
ClearCatch(p, step) ==
  /\ failedAt' = [failedAt EXCEPT ![p] = step]
  /\ pc' = [pc EXCEPT ![p] = "rollback"]
  /\ UNCHANGED <<db, txn, kind, loc, sink, sent, produced, log, result>>

ClearFailure(p, step) ==
  /\ CanFail
  /\ failures' = failures + 1
  /\ ClearCatch(p, step)

\* One statement of the clear sequence that succeeds.
ClearStep(p, newDb, next) ==
  /\ db' = newDb
  /\ pc' = [pc EXCEPT ![p] = next]
  /\ UNCHANGED <<txn, kind, loc, sink, sent, produced, log, failedAt, result, failures>>

\* Entry of a clear: adminService.clearDatabase -> db.clearDatabase
\* ("clearDb") or the WebSocket handler handleClearDatabase ("clearWs").
StartClear(p) ==
  /\ pc[p] = "idle"
  /\ \E k \in {"clearDb", "clearWs"} : kind' = [kind EXCEPT ![p] = k]
  /\ pc' = [pc EXCEPT ![p] = "begin"]
  /\ UNCHANGED <<db, txn, loc, sink, sent, produced, log, failedAt, result, failures>>

\* BEGIN TRANSACTION: an error when the connection already has one open.
ClearBegin(p) ==
  /\ pc[p] = "begin"
  /\ \/ ClearFailure(p, "begin")
     \/ /\ txn.active
        /\ ClearCatch(p, "begin")
        /\ UNCHANGED failures
     \/ /\ ~txn.active
        /\ txn' = [active |-> TRUE, saved |-> db]
        /\ pc' = [pc EXCEPT ![p] = IF kind[p] = "clearDb" THEN "delTc" ELSE "delCh"]
        /\ UNCHANGED <<db, kind, loc, sink, sent, produced, log, failedAt, result, failures>>

\* DELETE FROM token_comparisons (db.clearDatabase only; the table has no rows)
ClearComparisons(p) ==
  /\ pc[p] = "delTc"
  /\ \/ ClearFailure(p, "delete")
     \/ ClearStep(p, db, "delCh")

\* DELETE FROM chat_history
ClearHistory(p) ==
  /\ pc[p] = "delCh"
  /\ \/ ClearFailure(p, "delete")
     \/ ClearStep(p, DeleteChats(db), "reset")

\* UPDATE usage_stats SET total_tokens_used = 0
ClearUsage(p) ==
  /\ pc[p] = "reset"
  /\ \/ ClearFailure(p, "reset")
     \/ ClearStep(p, ResetTokensUsed(db), "delSeq")

\* DELETE FROM sqlite_sequence WHERE name ...
ClearSequence(p) ==
  /\ pc[p] = "delSeq"
  /\ \/ ClearFailure(p, "sequence")
     \/ ClearStep(p, DeleteSequence(db), "commit")

\* COMMIT: an error when no transaction is open on the connection.
\* db.clearDatabase then returns true (and the admin service broadcasts);
\* handleClearDatabase goes on to read the usage.
ClearCommit(p) ==
  /\ pc[p] = "commit"
  /\ \/ ClearFailure(p, "commit")
     \/ /\ ~txn.active
        /\ ClearCatch(p, "commit")
        /\ UNCHANGED failures
     \/ /\ txn.active
        /\ txn' = [txn EXCEPT !.active = FALSE]
        /\ log' = [log EXCEPT ![p] = Append(@, "clear")]
        /\ IF kind[p] = "clearDb"
           THEN /\ pc' = [pc EXCEPT ![p] = "done"]
                /\ result' = [result EXCEPT ![p].status = "ok"]
           ELSE /\ pc' = [pc EXCEPT ![p] = "clrUsage"]
                /\ UNCHANGED result
        /\ UNCHANGED <<db, kind, loc, sink, sent, produced, failedAt, failures>>

\* handleClearDatabase: await getTokenUsage(), answer, broadcastToOthers.
ClearFinish(p) ==
  /\ pc[p] = "clrUsage"
  /\ \/ ClearFailure(p, "usage")
     \/ /\ result' = [result EXCEPT ![p].status = "ok"]
        /\ pc' = [pc EXCEPT ![p] = "done"]
        /\ UNCHANGED <<db, txn, kind, loc, sink, sent, produced, log, failedAt, failures>>

\* The catch block: ROLLBACK, whose own error is caught and logged; then the
\* failure is thrown / answered.  ROLLBACK restores the state at BEGIN.
ClearRollback(p) ==
  /\ pc[p] = "rollback"
  /\ \/ /\ txn.active
        /\ db' = txn.saved
        /\ txn' = [txn EXCEPT !.active = FALSE]
        /\ UNCHANGED failures
     \/ /\ ~txn.active
        /\ UNCHANGED <<db, txn, failures>>
     \/ /\ CanFail
        /\ failures' = failures + 1
        /\ UNCHANGED <<db, txn>>
  /\ result' = [result EXCEPT ![p].status = "error"]
  /\ pc' = [pc EXCEPT ![p] = "done"]
  /\ UNCHANGED <<kind, loc, sink, sent, produced, log, failedAt>>

\* ------------------------------------------------- generation endpoints
\* Mutant: the limit counts as exceeded only once consumed is above it.
isTokenLimitExceededStrict(d) == d.used > d.limit

\* db.js isTokenLimitExceeded on the usage_stats row.
isTokenLimitExceeded(d) == d.used >= d.limit

\* A generation route up to `await isTokenLimitExceeded()`.
PostRoute(p, k) ==
  /\ pc[p] = "idle"
  /\ kind' = [kind EXCEPT ![p] = k]
  /\ pc' = [pc EXCEPT ![p] = "limit"]
  /\ UNCHANGED <<db, txn, loc, sink, sent, produced, log, failedAt, result, failures>>

\* POST /api/chat
PostChat(p) == PostRoute(p, "chat")

\* POST /api/stream.  One caller streams; the runs beside it are
\* non-streaming ones, whose store steps are the same addChatEntry steps.
PostStream(p) ==
  /\ \A q \in Procs \ {p} : kind[q] # "stream"
  /\ PostRoute(p, "stream")

\* The limit check: a failed read leaves the route as an error; an exceeded
\* limit goes on to read the usage for the answer; otherwise the route calls
\* its handler.
LimitCheck(p) ==
  /\ pc[p] = "limit"
  /\ \/ StorageFailure(p, "limit")
     \/ /\ isTokenLimitExceeded(db)
        /\ pc' = [pc EXCEPT ![p] = "limitUsage"]
        /\ UNCHANGED <<db, txn, kind, loc, sink, sent, produced, log, failedAt,
                       result, failures>>
     \/ /\ ~isTokenLimitExceeded(db)
        /\ IF kind[p] = "chat" THEN EnterChat(p) ELSE EnterStream(p)

\* await getTokenUsage(), then the "Token limit exceeded" answer.
LimitAnswer(p) ==
  /\ pc[p] = "limitUsage"
  /\ \/ StorageFailure(p, "limit")
     \/ /\ result' = [result EXCEPT ![p].status = "exceeded"]
        /\ pc' = [pc EXCEPT ![p] = "done"]
        /\ UNCHANGED <<db, txn, kind, loc, sink, sent, produced, log, failedAt, failures>>

\* The context has answered; the next request arrives (requests served one
\* at a time).  history keeps what was asked and answered.
NewRequest(p) ==
  /\ pc[p] = "done"
  /\ Len(history) < MaxRequests
  /\ history' = Append(history, [kind |-> kind[p], status |-> result[p].status,
                                 amount |-> IF kind[p] = "chat"
                                            THEN result[p].tokensAdded
                                            ELSE result[p].amountAdded])
  /\ pc' = [pc EXCEPT ![p] = "idle"]
  /\ kind' = [kind EXCEPT ![p] = "none"]
  /\ loc' = [loc EXCEPT ![p] = NoLocals]
  /\ sink' = [sink EXCEPT ![p] = "none"]
  /\ sent' = [sent EXCEPT ![p] = <<>>]
  /\ produced' = [produced EXCEPT ![p] = <<>>]
  /\ log' = [log EXCEPT ![p] = <<>>]
  /\ failedAt' = [failedAt EXCEPT ![p] = "none"]
  /\ result' = [result EXCEPT ![p] = NoResult]
  /\ UNCHANGED <<db, txn, failures>>

\* ===================================================================
\* The connection registry and the broadcaster
\* ===================================================================
\* Map.set and Map.delete on the registry.
Put(m, k, v) == [x \in DOMAIN m \cup {k} |-> IF x = k THEN v ELSE m[x]]
Without(m, S) == [x \in DOMAIN m \ S |-> m[x]]

MinOf(S) == CHOOSE x \in S : \A y \in S : x <= y

\* A registry operation as lastCall keeps it.
Operation(op, ws) ==
  [NoOperation EXCEPT !.op = op, !.ws = ws, !.before = wsClients,
                      !.states = readyState, !.at = now]

\* wss.on('connection', handleConnection): the handle is registered with
\* lastActivity = new Date() and sent the welcome message.
handleConnection(ws) ==
  /\ readyState[ws] = "NEW"
  /\ readyState' = [readyState EXCEPT ![ws] = "OPEN"]
  /\ wsClients' = Put(wsClients, ws, [lastActivity |-> now])
  /\ received' = [received EXCEPT ![ws] = Message("welcome")]
  /\ lastCall' = NoOperation
  /\ UNCHANGED closeEvents

\* The transport owns readyState.  A close handshake begins (started by the
\* peer, or by ws.close() on the server): OPEN becomes CLOSING.
TransportClosing(ws) ==
  /\ readyState[ws] = "OPEN"
  /\ readyState' = [readyState EXCEPT ![ws] = "CLOSING"]
  /\ lastCall' = NoOperation
  /\ UNCHANGED <<wsClients, closeEvents, received>>

\* The connection is gone: readyState becomes CLOSED and the 'close' event
\* is emitted for the handler registered in handleConnection.
TransportClosed(ws) ==
  /\ readyState[ws] \in {"OPEN", "CLOSING"}
  /\ readyState' = [readyState EXCEPT ![ws] = "CLOSED"]
  /\ closeEvents' = closeEvents \cup {ws}
  /\ lastCall' = NoOperation
  /\ UNCHANGED <<wsClients, received>>

\* Mutant: the close handler empties the registry.
OnCloseClearsAll(ws) ==
  /\ ws \in closeEvents
  /\ closeEvents' = closeEvents \ {ws}
  /\ wsClients' = Without(wsClients, Conns)
  /\ lastCall' = Operation("close", ws)
  /\ UNCHANGED <<readyState, received>>

\* ws.on('close'): wsClients.delete(ws).
OnClose(ws) ==
  /\ ws \in closeEvents
  /\ closeEvents' = closeEvents \ {ws}
  /\ wsClients' = Without(wsClients, {ws})
  /\ lastCall' = Operation("close", ws)
  /\ UNCHANGED <<readyState, received>>

\* ------------------------------------------------------ inbound messages
\* The text frames a peer sends: text that is not JSON, the JSON text null,
\* an object whose type no case handles, and a ping.
Frames == { "garbage", "null", "unknown", "ping" }

\* The type of the message the server answers a frame with ("none": no
\* send is made).  JSON.parse throws on text that is not JSON and the catch
\* of the message handler sends an error.  handleMessage is an async function
\* called without await: for the parsed value null, reading message.type
\* rejects its promise, which nothing handles, and no send is made.  The
\* default case sends an error, the ping case a pong.
Reply(frame) ==
  CASE frame = "garbage" -> "error"
    [] frame = "null" -> "none"
    [] frame = "unknown" -> "error"
    [] frame = "ping" -> "pong"

\* ws.on('message'): lastActivity of a registered handle is refreshed, the
\* frame is parsed and dispatched.  A send reaches the peer of an OPEN handle
\* unless it throws.
OnMessage(ws) ==
  /\ readyState[ws] \in {"OPEN", "CLOSING"}
  /\ \E frame \in Frames :
     \E fail \in IF Reply(frame) # "none" /\ readyState[ws] = "OPEN"
                 THEN BOOLEAN ELSE {FALSE} :
       LET sends == IF Reply(frame) = "none" THEN 0 ELSE 1
           delivered == sends = 1 /\ readyState[ws] = "OPEN" /\ ~fail
       IN /\ wsClients' = IF ws \in DOMAIN wsClients
                          THEN [wsClients EXCEPT ![ws].lastActivity = now]
                          ELSE wsClients
          /\ received' = IF delivered
                         THEN [received EXCEPT ![ws] = Message(Reply(frame))]
                         ELSE received
          /\ lastCall' = [Operation("message", ws) EXCEPT
                            !.frame = frame,
                            !.failed = IF fail THEN {ws} ELSE {},
                            !.pass.attempts[ws] = sends,
                            !.pass.sent = IF delivered THEN 1 ELSE 0,
                            !.pass.delivered = IF delivered THEN {ws} ELSE {}]
  /\ UNCHANGED <<readyState, closeEvents>>

\* ------------------------------------------------------------ broadcasts
\* Mutant: the pass sends to every handle of the registry, whatever its state.
VisitIgnoresState(client, excludeWs, fails, acc) ==
  IF client # excludeWs
  THEN IF client \in fails
       THEN [acc EXCEPT !.attempts[client] = @ + 1]
       ELSE [acc EXCEPT !.attempts[client] = @ + 1,
                        !.delivered = @ \cup {client}, !.sent = @ + 1]
  ELSE acc

\* The body of the forEach in broadcastToAll and broadcastToOthers, for one
\* entry of the registry: an OPEN handle other than excludeWs is sent the
\* message, the send is counted unless it throws (fails: the handles whose
\* send throws); a CLOSED or CLOSING handle is counted as closed.
Visit(client, excludeWs, fails, acc) ==
  IF client # excludeWs /\ readyState[client] = "OPEN"
  THEN IF client \in fails
       THEN [acc EXCEPT !.attempts[client] = @ + 1]
       ELSE [acc EXCEPT !.attempts[client] = @ + 1,
                        !.delivered = @ \cup {client}, !.sent = @ + 1]
  ELSE IF client # excludeWs /\ readyState[client] \in {"CLOSED", "CLOSING"}
       THEN [acc EXCEPT !.closed = @ + 1]
       ELSE acc

\* wsClients.forEach(...): every entry is visited once.
RECURSIVE ForEach(_, _, _, _)
ForEach(todo, excludeWs, fails, acc) ==
  IF todo = {} THEN acc
  ELSE ForEach(todo \ {MinOf(todo)}, excludeWs, fails,
               Visit(MinOf(todo), excludeWs, fails, acc))

\* Mutant: the cleanup removes the CLOSED handles only.
cleanupClosedOnly(clients) ==
  Without(clients, { c \in DOMAIN clients : readyState[c] = "CLOSED" })

\* wsBroadcast.js cleanupClosedConnections: the CLOSED and the CLOSING
\* handles are collected, then deleted.
cleanupClosedConnections(clients) ==
  Without(clients, { c \in DOMAIN clients : readyState[c] \in {"CLOSED", "CLOSING"} })

\* The handles a send can throw for: the OPEN ones of the registry.
CanThrow == { c \in DOMAIN wsClients : readyState[c] = "OPEN" }

Deliver(data, pass) ==
  received' = [c \in Conns |-> IF c \in pass.delivered THEN data ELSE received[c]]

\* wsBroadcast.js broadcastToAll: one pass, then the cleanup if the pass met
\* a CLOSED or CLOSING handle; returns { sent, closed }.
broadcastToAll(data, fails) ==
  LET pass == ForEach(DOMAIN wsClients, 0, fails, NoPass) IN
  /\ Deliver(data, pass)
  /\ wsClients' = IF pass.closed > 0 THEN cleanupClosedConnections(wsClients)
                  ELSE wsClients
  /\ lastCall' = [Operation("broadcastToAll", 0) EXCEPT
                    !.data = data, !.failed = fails, !.pass = pass,
                    !.returned = pass.sent]
  /\ UNCHANGED <<readyState, closeEvents>>

\* Mutant: the count returned is the number of sends attempted.
OthersCountAttempts(pass) ==
  Cardinality({ c \in Conns : pass.attempts[c] > 0 })

\* broadcastToOthers: sent++ follows the send inside the try.
OthersCount(pass) == pass.sent

\* wsBroadcast.js broadcastToOthers: one pass that skips excludeWs; returns
\* the count of sends.  (wsServer.js exports a function of the same name that
\* differs only in the fields it adds to the message.)
broadcastToOthers(excludeWs, data, fails) ==
  LET pass == ForEach(DOMAIN wsClients, excludeWs, fails, NoPass) IN
  /\ Deliver(data, pass)
  /\ lastCall' = [Operation("broadcastToOthers", excludeWs) EXCEPT
                    !.data = data, !.failed = fails, !.pass = pass,
                    !.returned = OthersCount(pass)]
  /\ UNCHANGED <<wsClients, readyState, closeEvents>>

\* wsServer.js broadcastToAll: one pass; a handle that is not OPEN counts as
\* failed and stays in the registry; returns the counts.
serverBroadcastToAll(data, fails) ==
  LET pass == ForEach(DOMAIN wsClients, 0, fails, NoPass) IN
  /\ Deliver(data, pass)
  /\ lastCall' = [Operation("serverBroadcastToAll", 0) EXCEPT
                    !.data = data, !.failed = fails, !.pass = pass,
                    !.returned = pass.sent]
  /\ UNCHANGED <<wsClients, readyState, closeEvents>>

\* ------------------------------------------------------ broadcastUpdate
\* broadcastUpdate() as the commit of a chat run calls it, without await: it
\* returns at once if the registry is empty, and is otherwise suspended at
\* its first await.
SetOffBroadcast ==
  bcast' = [p \in Procs |->
              IF Len(log'[p]) > Len(log[p]) /\ log'[p][Len(log'[p])] = "broadcast"
              THEN [NoBroadcast EXCEPT !.pc = IF DOMAIN wsClients = {}
                                              THEN "skipped" ELSE "usage"]
              ELSE bcast[p]]

\* A read of broadcastUpdate fails: the catch logs it and nothing is sent.
BroadcastFailure(p) ==
  /\ CanFail
  /\ failures' = failures + 1
  /\ bcast' = [bcast EXCEPT ![p].pc = "failed"]
  /\ UNCHANGED wsVars

\* const usage = await getTokenUsage()
BroadcastUsage(p) ==
  /\ bcast[p].pc = "usage"
  /\ \/ BroadcastFailure(p)
     \/ /\ bcast' = [bcast EXCEPT ![p] = [pc |-> "chats", used |-> db.used,
                                          limit |-> db.limit]]
        /\ UNCHANGED <<failures, wsVars>>
  /\ UNCHANGED <<db, txn, pc, kind, loc, sink, sent, produced, log, failedAt, result>>

\* const chats = await getRecentChats(20), then, with no further await, the
\* update message is built from usage and chats and handed to broadcastToAll.
BroadcastChats(p) ==
  /\ bcast[p].pc = "chats"
  /\ \/ BroadcastFailure(p)
     \/ /\ \E chats \in getRecentChats(db, 20), fails \in SUBSET CanThrow :
             broadcastToAll([type |-> "update", used |-> bcast[p].used,
                             limit |-> bcast[p].limit, chats |-> chats], fails)
        /\ bcast' = [bcast EXCEPT ![p].pc = "done"]
        /\ UNCHANGED failures
  /\ UNCHANGED <<db, txn, pc, kind, loc, sink, sent, produced, log, failedAt, result>>

\* ---------------------------------------------------------- direct send
\* Mutant: the entry with the identifier is sent to whatever its state.
MatchesAnyState(clientId) == clientId \in DOMAIN wsClients

\* sendToClient: the entry whose clientInfo.id is clientId and whose handle
\* is OPEN (a handle stands for the identifier handleConnection gave it).
Matches(clientId) ==
  clientId \in DOMAIN wsClients /\ readyState[clientId] = "OPEN"

\* wsBroadcast.js sendToClient: true if the matching OPEN handle was sent the
\* message, false if the send threw or no entry matched.  (sendToClient of
\* wsServer.js returns the same.)
sendToClient(clientId, data, fail) ==
  LET reached == Matches(clientId) /\ ~fail IN
  /\ received' = IF reached THEN [received EXCEPT ![clientId] = data] ELSE received
  /\ lastCall' = [Operation("sendToClient", clientId) EXCEPT
                    !.data = data,
                    !.failed = IF fail THEN {clientId} ELSE {},
                    !.pass.attempts[clientId] = IF Matches(clientId) THEN 1 ELSE 0,
                    !.pass.delivered = IF reached THEN {clientId} ELSE {},
                    !.pass.sent = IF reached THEN 1 ELSE 0,
                    !.ok = reached]
  /\ UNCHANGED <<wsClients, readyState, closeEvents>>

NotifyOne ==
  \E clientId \in Conns, data \in { Message("update") } :
  \E fail \in IF Matches(clientId) THEN BOOLEAN ELSE {FALSE} :
    sendToClient(clientId, data, fail)

\* The messages the registry operations are called with.
Payloads == { Message("update") }

NotifyAll ==
  \E data \in Payloads, fails \in SUBSET CanThrow : broadcastToAll(data, fails)

NotifyOthers ==
  \E excludeWs \in Conns, data \in Payloads, fails \in SUBSET CanThrow :
    broadcastToOthers(excludeWs, data, fails)

ServerNotifyAll ==
  \E data \in Payloads, fails \in SUBSET CanThrow :
    serverBroadcastToAll(data, fails)

\* ---------------------------------------------------- inactivity sweep
\* Mutant: a handle idle for exactly the threshold is swept too.
InactiveAtThreshold(clientInfo, maxInactiveTime) ==
  now - clientInfo.lastActivity >= maxInactiveTime

\* inactiveDuration > maxInactiveTime
Inactive(clientInfo, maxInactiveTime) ==
  now - clientInfo.lastActivity > maxInactiveTime

\* The thresholds the sweep is called with.
Thresholds == { 0, 1 }

\* cleanupInactiveConnections: every inactive handle is closed (ws.close()
\* begins the close handshake of an OPEN handle) and deleted; returns the
\* number deleted.
cleanupInactiveConnections(maxInactiveTime) ==
  LET idle == { c \in DOMAIN wsClients : Inactive(wsClients[c], maxInactiveTime) } IN
  /\ readyState' = [c \in Conns |->
                      IF c \in idle /\ readyState[c] = "OPEN" THEN "CLOSING"
                      ELSE readyState[c]]
  /\ wsClients' = Without(wsClients, idle)
  /\ lastCall' = [Operation("sweep", 0) EXCEPT
                    !.threshold = maxInactiveTime,
                    !.returned = Cardinality(idle)]
  /\ UNCHANGED <<closeEvents, received>>

Sweep == \E maxInactiveTime \in Thresholds : cleanupInactiveConnections(maxInactiveTime)

\* Time passes.
Tick ==
  /\ now < MaxTime
  /\ now' = now + 1
  /\ lastCall' = NoOperation
  /\ UNCHANGED <<wsClients, readyState, closeEvents, received>>

\* --------------------------------------- administrative WebSocket requests
\* handleMessage(ws, ...) runs for the handle its frame arrived on: the
\* context p serves the handle p.
Socket(p) == p

\* One ws.send call that returned: the handle and the type of the message.
Wire(to, type) == [to |-> to, type |-> type]

RECURSIVE InOrder(_)
InOrder(S) == IF S = {} THEN <<>> ELSE <<MinOf(S)>> \o InOrder(S \ {MinOf(S)})

\* The sends of one forEach pass, in the order of the pass.
WireOf(pass, type) ==
  [i \in 1..Cardinality(pass.delivered) |-> Wire(InOrder(pass.delivered)[i], type)]

ResponseType(p) ==
  IF kind[p] = "extendWs" THEN "extendLimitResponse" ELSE "clearDatabaseResponse"

\* A direct response: { type, success, ... }.
Response(type, success, used, limit) ==
  [type |-> type, success |-> success, used |-> used, limit |-> limit,
   chats |-> <<>>]

\* ws.send of a handler to its own handle: it may throw on an OPEN handle
\* and reaches the peer of an OPEN handle if it does not.
MayThrow(ws) == IF readyState[ws] = "OPEN" THEN BOOLEAN ELSE {FALSE}

\* The success:false response: of the argument checks of handleExtendLimit,
\* or of the catch block of either handler.  If this send throws nothing
\* handles it and the requester is sent nothing.
AnswerFailure(p) ==
  \E fail \in MayThrow(Socket(p)) :
    LET ws == Socket(p)
        response == Response(ResponseType(p), FALSE, 0, 0)
    IN /\ received' = IF readyState[ws] = "OPEN" /\ ~fail
                      THEN [received EXCEPT ![ws] = response] ELSE received
       /\ lastCall' = [Operation(ResponseType(p), ws) EXCEPT
                         !.failed = IF fail THEN {ws} ELSE {},
                         !.wire = IF fail THEN <<>>
                                  ELSE <<Wire(ws, ResponseType(p))>>]
       /\ UNCHANGED <<wsClients, readyState, closeEvents>>

\* A step of a handler that leaves it through its failure response sends
\* that response; any other step sends nothing.
Answered(p) ==
  IF pc'[p] = "done" /\ result'[p].status = "error"
  THEN AnswerFailure(p)
  ELSE UNCHANGED wsVars

\* Mutant: the update is broadcast to every handle, the requester included.
ExcludedNobody(p) == 0

\* broadcastToOthers(ws, ...): the handle left out is the requester's.
Excluded(p) == Socket(p)

\* The synchronous tail of a handler whose request succeeded:
\* ws.send(response), then broadcastToOthers(ws, { type: 'update', ... }).
AnswerAndBroadcast(p, response, data) ==
  \E fails \in SUBSET (CanThrow \ {Socket(p)}) :
    LET ws == Socket(p)
        pass == ForEach(DOMAIN wsClients, Excluded(p), fails, NoPass)
    IN /\ received' = [c \in Conns |->
                         IF c \in pass.delivered THEN data
                         ELSE IF c = ws /\ readyState[ws] = "OPEN" THEN response
                         ELSE received[c]]
       /\ lastCall' = [Operation(ResponseType(p), ws) EXCEPT
                         !.data = data, !.failed = fails, !.pass = pass,
                         !.returned = OthersCount(pass), !.ok = TRUE,
                         !.wire = <<Wire(ws, ResponseType(p))>>
                                    \o WireOf(pass, data.type)]
       /\ UNCHANGED <<wsClients, readyState, closeEvents>>

\* A frame { type: 'extendLimit', amount } or { type: 'clearDatabase' }
\* arrives on an OPEN handle.
WsRequest(p) ==
  /\ readyState[Socket(p)] = "OPEN"
  /\ \/ StartExtend(p) /\ kind'[p] = "extendWs"
     \/ StartClear(p) /\ kind'[p] = "clearWs"
  /\ Answered(p)

\* The awaited statements of the two handlers.
WsStatement(p) ==
  /\ kind[p] \in {"extendWs", "clearWs"}
  /\ \/ ExtendRead(p) \/ ExtendWrite(p)
     \/ ClearBegin(p) \/ ClearHistory(p) \/ ClearUsage(p) \/ ClearSequence(p)
     \/ ClearCommit(p) \/ ClearRollback(p)
  /\ Answered(p)

\* handleExtendLimit: await getTokenUsage(), the response, the broadcast.
\* A throw of the read or of the first send enters the catch block.
WsExtendFinish(p) ==
  /\ kind[p] = "extendWs"
  /\ pc[p] = "extUsage"
  /\ \/ StorageFailure(p, "usage") /\ AnswerFailure(p)
     \/ /\ TRUE \in MayThrow(Socket(p))
        /\ Raise(p, "send")
        /\ AnswerFailure(p)
        /\ UNCHANGED <<db, txn, kind, log, failures>>
     \/ /\ AnswerAndBroadcast(p,
             Response("extendLimitResponse", TRUE, db.used, db.limit),
             [type |-> "update", used |-> db.used, limit |-> db.limit,
              chats |-> <<>>])
        /\ result' = [result EXCEPT ![p].status = "ok",
                                    ![p].previousLimit = loc[p].curLimit,
                                    ![p].newLimit = db.limit,
                                    ![p].amountAdded = loc[p].amount]
        /\ log' = [log EXCEPT ![p] = Append(@, "broadcast")]
        /\ loc' = [loc EXCEPT ![p] = Returned(@)]
        /\ pc' = [pc EXCEPT ![p] = "done"]
        /\ UNCHANGED <<db, txn, kind, sink, sent, produced, failedAt, failures>>

\* handleClearDatabase: await getTokenUsage(), the response, the broadcast.
\* A throw of the read or of the first send enters the catch block, which
\* issues ROLLBACK before it answers.
WsClearFinish(p) ==
  /\ kind[p] = "clearWs"
  /\ pc[p] = "clrUsage"
  /\ \/ ClearFailure(p, "usage") /\ UNCHANGED wsVars
     \/ /\ TRUE \in MayThrow(Socket(p))
        /\ ClearCatch(p, "send")
        /\ UNCHANGED <<failures, wsVars>>
     \/ /\ AnswerAndBroadcast(p,
             Response("clearDatabaseResponse", TRUE, 0, db.limit),
             [type |-> "update", used |-> 0, limit |-> db.limit,
              chats |-> <<>>])
        /\ result' = [result EXCEPT ![p].status = "ok"]
        /\ log' = [log EXCEPT ![p] = Append(@, "broadcast")]
        /\ pc' = [pc EXCEPT ![p] = "done"]
        /\ UNCHANGED <<db, txn, kind, loc, sink, sent, produced, failedAt, failures>>

\* ------------------------------------------------------- requestUpdate
\* A frame { type: 'requestUpdate' } arrives on an OPEN handle: the handler
\* is suspended at its first await.
RequestUpdate(ws) ==
  /\ readyState[ws] = "OPEN"
  /\ upd.pc = "none"
  /\ upd' = [upd EXCEPT !.pc = "usage"]
  /\ UNCHANGED <<failures, wsVars>>

\* A read of handleRequestUpdate fails: the catch block sends an error.
UpdateFailure(ws) ==
  /\ CanFail
  /\ failures' = failures + 1
  /\ upd' = [upd EXCEPT !.pc = "failed"]
  /\ received' = IF readyState[ws] = "OPEN"
                 THEN [received EXCEPT ![ws] = Message("error")] ELSE received
  /\ lastCall' = Operation("requestUpdate", ws)
  /\ UNCHANGED <<wsClients, readyState, closeEvents>>

\* Mutant: the limit is read into both usage values.
UsageReadTakesLimit(d) == [pc |-> "chats", used |-> d.limit, limit |-> d.limit]

\* const usage = await getTokenUsage(): the handler goes on to its second
\* await with total_tokens_used and total_limit.
UsageRead(d) == [pc |-> "chats", used |-> d.used, limit |-> d.limit]

UpdateUsage(ws) ==
  /\ upd.pc = "usage"
  /\ \/ UpdateFailure(ws)
     \/ /\ upd' = UsageRead(db)
        /\ UNCHANGED <<failures, wsVars>>

\* const chats = await getRecentChats(20), then, with no further await,
\* ws.send of the update built from usage and chats.
UpdateChats(ws) ==
  /\ upd.pc = "chats"
  /\ \/ UpdateFailure(ws)
     \/ /\ \E chats \in getRecentChats(db, 20) :
             LET data == [type |-> "update", used |-> upd.used,
                          limit |-> upd.limit, chats |-> chats]
             IN /\ received' = IF readyState[ws] = "OPEN"
                               THEN [received EXCEPT ![ws] = data] ELSE received
                /\ lastCall' = [Operation("requestUpdate", ws) EXCEPT !.data = data]
        /\ upd' = [upd EXCEPT !.pc = "done"]
        /\ UNCHANGED <<failures, wsClients, readyState, closeEvents>>

\* History variable: every state the ledger and the history log have been in.
RecordSeen == seen' = seen \cup {Snapshot(db')}

\* -------------------------------------------------- closeAllConnections
\* closeAllConnections up to its await: every handle of the registry is asked
\* to close (client.close(1000, ...) begins the close handshake of an OPEN
\* handle), and the call waits for the 100 ms timers of the handles.  Over an
\* empty registry there is no timer to wait for: no event is handled before
\* wsClients.clear() and the return.
CloseAllStart ==
  /\ shutdown.pc = "none"
  /\ readyState' = [c \in Conns |->
                      IF c \in DOMAIN wsClients /\ readyState[c] = "OPEN"
                      THEN "CLOSING" ELSE readyState[c]]
  /\ shutdown' = [shutdown EXCEPT
                    !.pc = IF DOMAIN wsClients = {} THEN "returned" ELSE "waiting",
                    !.asked = DOMAIN wsClients]
  /\ lastCall' = IF DOMAIN wsClients = {}
                 THEN Operation("closeAllConnections", 0) ELSE NoOperation
  /\ UNCHANGED <<wsClients, closeEvents, received>>

\* The timers have fired: wsClients.clear(), and the call returns.
CloseAllFinish ==
  /\ shutdown.pc = "waiting"
  /\ wsClients' = Without(wsClients, DOMAIN wsClients)
  /\ shutdown' = [shutdown EXCEPT !.pc = "returned", !.dropped = DOMAIN wsClients]
  /\ lastCall' = Operation("closeAllConnections", 0)
  /\ UNCHANGED <<readyState, closeEvents, received>>

\* -------------------------------------------------------- specification
\* History variable: what the store held when a request arrived.
RecordCall ==
  atCall' = [p \in Procs |->
               IF pc[p] = "idle" /\ pc'[p] # "idle"
               THEN [used |-> db.used, limit |-> db.limit, chats |-> db.chats]
               ELSE atCall[p]]

\* History variable: the largest id an INSERT has been given so far.
RecordIssued ==
  issued' = MaxOf({issued} \cup { db'.chats[i].id : i \in 1..Len(db'.chats) })

\* The limit check of POST /api/chat and POST /api/stream.
RouteStep(p) == LimitCheck(p) \/ LimitAnswer(p)

\* Steps of addChatEntry and of the non-streaming handler that calls it.
ChatStep(p) ==
  \/ StartChat(p) \/ ChatGenerate(p)
  \/ AppendHistory(p) \/ IncrementUsage(p) \/ FinishChat(p)

StreamStep(p) ==
  \/ PostStream(p) \/ GenerateStream(p) \/ StreamChunk(p)
  \/ StreamThrow(p) \/ StreamEnd(p) \/ CallerCancel(p)

ExtendStep(p) ==
  \/ StartExtend(p) \/ ExtendRead(p) \/ ExtendWrite(p) \/ ExtendFinish(p)

ClearOp(p) ==
  \/ StartClear(p) \/ ClearBegin(p) \/ ClearComparisons(p) \/ ClearHistory(p)
  \/ ClearUsage(p) \/ ClearSequence(p) \/ ClearCommit(p) \/ ClearFinish(p)
  \/ ClearRollback(p)

\* The ledger and the history log under concurrent commits, extends and clears.
Next ==
  /\ \E p \in Procs : ChatStep(p) \/ ExtendStep(p) \/ ClearOp(p)
  /\ UNCHANGED <<history, atCall, issued, wsVars, now, bcast, auxVars>>

Spec == Init /\ [][Next]_vars

\* The chat pipelines: streaming and non-streaming runs side by side.
NextStream ==
  /\ \E p \in Procs : RouteStep(p) \/ StreamStep(p) \/ ChatStep(p)
  /\ UNCHANGED <<history, atCall, issued, wsVars, now, bcast, auxVars>>

SpecStream == Init /\ [][NextStream]_vars

\* Requests served one at a time by one context, over a store that does not
\* fail, with the full range of token counts and extension amounts.
First == CHOOSE p \in Procs : \A q \in Procs : p <= q

SerialChat(p) ==
  \/ PostChat(p) \/ StartChat(p) \/ GenerateContent(p, TokenCounts)
  \/ AppendHistory(p) \/ IncrementUsage(p) \/ FinishChat(p)

SerialExtend(p) ==
  \/ ExtendRequest(p, RequestAmounts) \/ ExtendRead(p) \/ ExtendWrite(p)
  \/ ExtendFinish(p)

NextSerial ==
  \/ /\ \/ RouteStep(First) \/ SerialChat(First)
        \/ SerialExtend(First) \/ ClearOp(First)
     /\ failures' = failures
     /\ RecordCall
     /\ UNCHANGED <<history, issued, wsVars, now, bcast, auxVars>>
  \/ NewRequest(First) /\ UNCHANGED <<atCall, issued, wsVars, now, bcast, auxVars>>

SpecSerial == Init /\ [][NextSerial]_vars

\* Concurrent clears over a database that already holds history.
NextRestarted ==
  /\ \E p \in Procs : ClearOp(p)
  /\ RecordCall
  /\ UNCHANGED <<history, issued, wsVars, now, bcast, auxVars>>

SpecRestarted == InitRestarted /\ [][NextRestarted]_vars

\* The registry under connects, closes and broadcasts.
NextRegistry ==
  /\ \/ \E ws \in Conns :
          \/ handleConnection(ws) \/ TransportClosing(ws)
          \/ TransportClosed(ws) \/ OnClose(ws)
     \/ NotifyAll \/ NotifyOthers \/ ServerNotifyAll
  /\ UNCHANGED <<ledgerVars, history, atCall, issued, now, bcast, auxVars>>

SpecRegistry == Init /\ [][NextRegistry]_vars

\* Messages sent to one connection by its identifier.
NextDirect ==
  /\ \/ \E ws \in Conns :
          \/ handleConnection(ws) \/ TransportClosing(ws)
          \/ TransportClosed(ws) \/ OnClose(ws)
     \/ NotifyOne
  /\ UNCHANGED <<ledgerVars, history, atCall, issued, now, bcast, auxVars>>

SpecDirect == Init /\ [][NextDirect]_vars

\* The registry under connects and inactivity sweeps as time passes.
NextSweep ==
  \/ /\ \/ \E ws \in Conns :
             \/ handleConnection(ws) \/ TransportClosed(ws) \/ OnClose(ws)
        \/ Sweep
     /\ UNCHANGED <<ledgerVars, history, atCall, issued, now, bcast, auxVars>>
  \/ Tick /\ UNCHANGED <<ledgerVars, history, atCall, issued, bcast, auxVars>>

SpecSweep == Init /\ [][NextSweep]_vars

\* The messages the peers send over their connections.
NextMessages ==
  /\ \E ws \in Conns :
       \/ handleConnection(ws) \/ OnMessage(ws)
       \/ TransportClosing(ws) \/ TransportClosed(ws) \/ OnClose(ws)
  /\ UNCHANGED <<ledgerVars, history, atCall, issued, now, bcast, auxVars>>

SpecMessages == Init /\ [][NextMessages]_vars

\* The history log as time passes: chat requests and clears served one at a
\* time over a store that does not fail.
NextHistory ==
  \/ /\ ChatStep(First) \/ ClearOp(First)
     /\ failures' = failures
     /\ RecordCall
     /\ RecordIssued
     /\ UNCHANGED <<history, wsVars, now, bcast, auxVars>>
  \/ NewRequest(First) /\ UNCHANGED <<atCall, issued, wsVars, now, bcast, auxVars>>
  \/ Tick /\ UNCHANGED <<ledgerVars, history, atCall, issued, bcast, auxVars>>

SpecHistory == Init /\ [][NextHistory]_vars

\* Chat runs committing side by side, each setting off its broadcastUpdate,
\* with one subscriber; the store and the sends do not fail.
Subscriber == MinOf(Conns)

NextBroadcast ==
  /\ \/ /\ \E p \in Procs : ChatStep(p)
        /\ SetOffBroadcast
        /\ UNCHANGED wsVars
     \/ \E p \in Procs : BroadcastUsage(p) \/ BroadcastChats(p)
     \/ handleConnection(Subscriber) /\ UNCHANGED <<ledgerVars, bcast>>
  /\ failures' = failures
  /\ lastCall'.failed = {}
  /\ UNCHANGED <<history, atCall, issued, now, auxVars>>

SpecBroadcast == Init /\ [][NextBroadcast]_vars

\* Chat runs committing side by side while the subscriber asks for an update;
\* the store and the sends do not fail.  (The broadcastUpdate calls of the
\* runs, which make the same two reads, are followed in SpecBroadcast.)
NextUpdate ==
  /\ \/ /\ \E p \in Procs : ChatStep(p)
        /\ UNCHANGED <<wsVars, upd>>
     \/ handleConnection(Subscriber) /\ UNCHANGED <<ledgerVars, upd>>
     \/ /\ \/ RequestUpdate(Subscriber) \/ UpdateUsage(Subscriber)
           \/ UpdateChats(Subscriber)
        /\ UNCHANGED <<db, txn, pc, kind, loc, sink, sent, produced, log,
                       failedAt, result>>
  /\ failures' = failures
  /\ lastCall'.failed = {}
  /\ RecordSeen
  /\ UNCHANGED <<history, atCall, issued, now, bcast, shutdown>>

SpecUpdate == Init /\ [][NextUpdate]_vars

\* closeAllConnections beside the connections that come and go.
NextShutdown ==
  /\ \/ /\ \E ws \in Conns :
             \/ handleConnection(ws) \/ TransportClosed(ws) \/ OnClose(ws)
        /\ UNCHANGED shutdown
     \/ CloseAllStart \/ CloseAllFinish
  /\ UNCHANGED <<ledgerVars, history, atCall, issued, now, bcast, upd, seen>>

SpecShutdown == Init /\ [][NextShutdown]_vars

\* One streaming run from the request to its end: the steps start() takes,
\* each resumed when the promise it awaits settles.
Handler(p) ==
  \/ LimitCheck(p) \/ GenerateStream(p) \/ StreamChunk(p) \/ StreamThrow(p)
  \/ StreamEnd(p) \/ AppendHistory(p) \/ IncrementUsage(p) \/ FinishChat(p)

RunStep ==
  /\ Handler(First)
  /\ UNCHANGED <<history, atCall, issued, wsVars, now, bcast, auxVars>>

NextRun ==
  \/ /\ PostStream(First) \/ CallerCancel(First)
     /\ UNCHANGED <<history, atCall, issued, wsVars, now, bcast, auxVars>>
  \/ RunStep

\* The model stream is finite and every awaited promise settles, so a step
\* of the run that stays enabled is taken.
SpecRun == Init /\ [][NextRun]_vars /\ WF_vars(RunStep)

\* One administrative request over a WebSocket, beside the connections that
\* come and go, on a store an earlier run has written to.
NextAdmin ==
  /\ \/ /\ \E ws \in Conns : handleConnection(ws) \/ TransportClosing(ws)
        /\ UNCHANGED ledgerVars
     \/ WsRequest(First) \/ WsStatement(First)
     \/ WsExtendFinish(First) \/ WsClearFinish(First)
  /\ RecordCall
  /\ UNCHANGED <<history, issued, now, bcast, auxVars>>

SpecAdmin == InitRestarted /\ [][NextAdmin]_vars

\* One streaming run beside clears issued by other contexts, over a store
\* that does not fail.
NextStreamClear ==
  /\ \/ PostStream(First) \/ CallerCancel(First) \/ Handler(First)
     \/ \E p \in Procs \ {First} : ClearOp(p)
  /\ failures' = failures
  /\ UNCHANGED <<history, atCall, issued, wsVars, now, bcast, auxVars>>

SpecStreamClear == Init /\ [][NextStreamClear]_vars

\* ===================================================================
\* Properties
\* ===================================================================
ChatKinds == {"chat", "stream"}
ExtendKinds == {"extendDb", "extendWs"}
ClearKinds == {"clearDb", "clearWs"}

RECURSIVE SumOver(_, _)
SumOver(S, f) ==
  IF S = {} THEN 0
  ELSE LET x == CHOOSE y \in S : TRUE IN f[x] + SumOver(S \ {x}, f)

Has(seq, x) == \E i \in 1..Len(seq) : seq[i] = x

Count(seq, x) == Cardinality({i \in 1..Len(seq) : seq[i] = x})

IsPrefix(s, t) == Len(s) <= Len(t) /\ \A i \in 1..Len(s) : s[i] = t[i]

\* The history entries a run has written that are still in the log.
EntriesOf(p) == SelectSeq(db.chats, LAMBDA e : e.owner = p)

\* The token count a run stored in its history entry (0 if it has none).
StoredTokens(p) == SumTokens(EntriesOf(p))

AllQuiet == \A p \in Procs : ~InFlight(p)

NoClearStarted == \A p \in Procs : kind[p] \notin ClearKinds

\* C1: with no clear running, overlapping commits lose no increment: consumed
\* is the initial 0 plus the token count of every commit whose increment ran,
\* the count being the one that commit stored in its history entry.
C1_NoLostIncrement ==
  NoClearStarted =>
    db.used = SumOver(Procs, [p \in Procs |->
                 IF Has(log[p], "increment") THEN StoredTokens(p) ELSE 0])

\* Two commits overlap: q has inserted and incremented after p's insert and
\* before p's increment; both counts are positive.
C1_Witness ==
  \E p, q \in Procs :
    /\ p # q /\ NoClearStarted
    /\ pc[p] = "update" /\ Has(log[q], "increment")
    /\ Len(db.chats) = 2 /\ db.chats[1].owner = p /\ db.chats[2].owner = q
    /\ db.used = db.chats[2].tokens /\ db.used > 0

\* C2: when every extend that ran reported success, the limit is the initial
\* limit plus the sum of their amounts.
C2_NoLostExtend ==
  (/\ AllQuiet
   /\ \A p \in Procs : kind[p] \in ExtendKinds => result[p].status = "ok")
  => db.limit = initialLimit + SumOver(Procs, [p \in Procs |->
                   IF kind[p] \in ExtendKinds THEN result[p].amountAdded ELSE 0])

\* C3: one clear and one commit, nothing else and no failure: the final state
\* is that of one of the two serial orders.
C3_ClearCommitSerializable ==
  \A p, q \in Procs :
    (/\ kind[p] \in ClearKinds /\ kind[q] = "chat"
     /\ pc[p] = "done" /\ pc[q] = "done"
     /\ result[p].status = "ok" /\ result[q].status = "ok"
     /\ \A r \in Procs \ {p, q} : pc[r] = "idle"
     /\ failures = 0)
    => \/ db.chats = <<>> /\ db.used = 0
       \/ /\ Len(db.chats) = 1 /\ db.chats[1].owner = q
          /\ db.used = db.chats[1].tokens

\* C4: with no commit or clear in progress and no storage failure, consumed is
\* the sum of the token counts of the history entries.
C4_LedgerMatchesHistory ==
  (/\ \A p \in Procs : kind[p] \in ChatKinds \cup ClearKinds => ~InFlight(p)
   /\ failures = 0)
  => db.used = SumTokens(db.chats)

\* The texts of the chunk messages put on the caller's stream, in order.
RECURSIVE ChunkTexts(_)
ChunkTexts(queue) ==
  IF queue = <<>> THEN <<>>
  ELSE IF Head(queue).type = "chunk"
       THEN <<Head(queue).text>> \o ChunkTexts(Tail(queue))
       ELSE ChunkTexts(Tail(queue))

NonEmptyFragments(frags) == SelectSeq(frags, LAMBDA t : t # <<>>)

Streaming(p) == kind[p] = "stream" /\ pc[p] \in {"stream", "insert", "update", "usage"}

C6_SinkFailureStillCommits ==
  \A p \in Procs :
    (kind[p] = "stream" /\ pc[p] = "done" /\ failedAt[p] = "enqueue")
    => Count(log[p], "append") = 1 /\ Count(log[p], "increment") = 1

\* C7: a run that ended on a failure of the model (at the call or mid-stream)
\* is FAILED, has written no history entry, made no ledger increment and no
\* broadcast, whatever it had forwarded; the caller's stream, unless the
\* caller itself cancelled it, is errored, after the error line in json format.
C7_UpstreamFailureCommitsNothing ==
  \A p \in Procs :
    (kind[p] = "stream" /\ failedAt[p] \in {"generate", "stream"})
    => /\ pc[p] = "done" /\ result[p].status = "error"
       /\ log[p] = <<>> /\ EntriesOf(p) = <<>> /\ result[p].tokensAdded = 0
       /\ sink[p] \in {"errored", "cancelled"}
       /\ sink[p] = "errored" /\ loc[p].fmt = "json" =>
            Len(sent[p]) > 0 /\ sent[p][Len(sent[p])].type = "error"

\* The model failed after a fragment had been forwarded to an open stream.
C7_Witness ==
  \E p \in Procs :
    /\ kind[p] = "stream" /\ failedAt[p] = "stream" /\ pc[p] = "done"
    /\ Len(ChunkTexts(sent[p])) >= 1 /\ sink[p] = "errored"
    /\ \E q \in Procs \ {p} : Has(log[q], "increment")

CommitOrder == <<"append", "increment", "broadcast">>

\* C8: in every chat run, streaming or not, the commit steps done so far are
\* an initial part of: history append, ledger increment, broadcast; and the
\* increment adds the token count stored in the run's history entry.
C8_CommitOrder ==
  \A p \in Procs :
    kind[p] \in ChatKinds =>
      /\ IsPrefix(log[p], CommitOrder)
      /\ Has(log[p], "increment") =>
           Len(EntriesOf(p)) = 1 /\ result[p].tokensAdded = EntriesOf(p)[1].tokens

\* A streaming and a non-streaming run have both completed all three steps.
C8_Witness ==
  \E p, q \in Procs :
    /\ kind[p] = "stream" /\ kind[q] = "chat"
    /\ log[p] = CommitOrder /\ log[q] = CommitOrder
    /\ result[p].status = "ok" /\ result[q].status = "ok"

\* The store is what the completed commit steps made it: one entry per run
\* whose append ran, consumed the sum of the counts of the runs whose
\* increment ran, the limit untouched.  A failed step has changed nothing.
StoreMatchesLog ==
  /\ \A p \in Procs : Len(EntriesOf(p)) = Count(log[p], "append")
  /\ db.used = SumOver(Procs, [p \in Procs |->
                   IF Has(log[p], "increment") THEN StoredTokens(p) ELSE 0])
  /\ db.limit = initialLimit

\* C9: a run whose history append failed has ended with an error without an
\* increment or a broadcast and has no history entry, the store holds only
\* what the other runs' completed steps put there, and a streaming caller
\* that has not cancelled finds its stream errored.
C9_AppendFailureSkipsCommit ==
  /\ StoreMatchesLog
  /\ \A p \in Procs :
       failedAt[p] = "append"
       => /\ pc[p] = "done" /\ result[p].status = "error"
          /\ log[p] = <<>> /\ EntriesOf(p) = <<>> /\ result[p].tokensAdded = 0
          /\ kind[p] = "stream" => sink[p] \in {"errored", "cancelled"}

\* A streaming run that had forwarded a fragment failed at its history append
\* while another run has committed.
C9_Witness ==
  \E p \in Procs :
    /\ kind[p] = "stream" /\ failedAt[p] = "append" /\ sink[p] = "errored"
    /\ Len(ChunkTexts(sent[p])) >= 1
    /\ \E q \in Procs \ {p} : Has(log[q], "increment") /\ db.used > 0

\* C10: a run whose ledger increment failed keeps its history entry, has
\* added nothing to consumed, makes no further increment and no broadcast, and
\* no run increments more than once: consumed counts each run at most once.
C10_IncrementFailureKeepsEntry ==
  /\ StoreMatchesLog
  /\ \A p \in Procs :
       /\ Count(log[p], "increment") <= 1
       /\ failedAt[p] = "increment"
          => /\ pc[p] = "done" /\ result[p].status = "error"
             /\ log[p] = <<"append">> /\ result[p].tokensAdded = 0
             /\ Len(EntriesOf(p)) = 1

\* A run's increment failed after its append, and the ledger under-counts.
C10_Witness ==
  \E p \in Procs :
    /\ failedAt[p] = "increment" /\ Len(EntriesOf(p)) = 1
    /\ db.used = SumTokens(db.chats) - EntriesOf(p)[1].tokens
    /\ EntriesOf(p)[1].tokens > 0

\* C11: a clear that has returned successfully, served with nothing else
\* running, leaves recent(N) empty for every N, consumed 0 and the limit at the
\* value it had at the call.
C11_ClearedState ==
  \A p \in Procs :
    (kind[p] \in ClearKinds /\ pc[p] = "done" /\ result[p].status = "ok")
    => /\ \A n \in 0..(Len(atCall[p].chats) + 1) : getRecentChats(db, n) = {<<>>}
       /\ db.used = 0
       /\ db.limit = atCall[p].limit

\* A clear succeeded on a store that held an entry, a positive consumed and
\* an extended limit.
C11_Witness ==
  \E p \in Procs :
    /\ kind[p] \in ClearKinds /\ pc[p] = "done" /\ result[p].status = "ok"
    /\ Len(atCall[p].chats) >= 1 /\ atCall[p].used > 0
    /\ atCall[p].limit > initialLimit /\ db.limit = atCall[p].limit
    /\ getRecentChats(atCall[p], 1) # {<<>>}

\* C12: a clear one of whose steps (delete history, reset consumed, reset
\* sequence, commit) failed, no other operation than clears having run and no
\* statement having met a storage error, has returned with the history and
\* consumed as they were at its call.
C12_ClearAllOrNothing ==
  \A p \in Procs :
    (/\ kind[p] \in ClearKinds /\ pc[p] = "done"
     /\ failedAt[p] \in {"delete", "reset", "sequence", "commit"}
     /\ \A q \in Procs : kind[q] \in ClearKinds \cup {"none"}
     /\ failures = 0)
    => db.chats = atCall[p].chats /\ db.used = atCall[p].used

\* Whether the JSON number m * 10^e of a request is greater than n (n < 10^21).
Exceeds(x, n) == IF x.e < 21 THEN x.m * 10^(x.e) > n ELSE x.m > 0

\* C13: an extend request whose amount is greater than the maximum extension
\* has failed as soon as it has arrived, whatever its entry path, and has
\* written nothing.
C13_OverMaxRejected ==
  \A p \in Procs :
    (kind[p] \in ExtendKinds /\ Exceeds(loc[p].req, maxExtensionAmount))
    => pc[p] = "done" /\ result[p].status = "error" /\ log[p] = <<>>

\* C14: the step in which an extend request with an amount <= 0 arrives, on
\* either entry path, ends the request as an invalid argument and changes
\* neither the limit nor consumed nor anything else in the store, and such a
\* request never writes or broadcasts.
C14_InvalidAmountRejected ==
  /\ [][\A p \in Procs :
          (pc[p] = "idle" /\ kind'[p] \in ExtendKinds /\ loc'[p].req.m <= 0)
          => /\ db' = db /\ txn' = txn
             /\ pc'[p] = "done" /\ result'[p].status = "error"
             /\ failedAt'[p] = "input" /\ log'[p] = <<>>]_vars
  /\ [](\A p \in Procs :
          (kind[p] \in ExtendKinds /\ loc[p].req.m <= 0)
          => pc[p] = "done" /\ log[p] = <<>> /\ result[p].amountAdded = 0)

\* A negative amount was refused after an earlier extend and a commit had
\* succeeded, whose effects are still in place.
C14_Witness ==
  \E p \in Procs :
    /\ kind[p] \in ExtendKinds /\ loc[p].req.m < 0 /\ pc[p] = "done"
    /\ result[p].status = "error" /\ failedAt[p] = "input"
    /\ db.limit > initialLimit /\ db.used > 0

\* C15: every extend that reported success reports newLimit = previousLimit +
\* amount.
C15_ExtendReportsBeforeAfter ==
  \A p \in Procs :
    (kind[p] \in ExtendKinds /\ result[p].status = "ok")
    => result[p].newLimit = result[p].previousLimit + result[p].amountAdded

\* C16: the limit is always greater than 0 and consumed never negative, and
\* consumed decreases only in a step of a clear operation (its reset, or the
\* rollback of its transaction).
C16_LedgerInvariant ==
  /\ [](db.limit > 0 /\ db.used >= 0)
  /\ [][db'.used < db.used
        => \E p \in Procs : kind[p] \in ClearKinds /\ pc'[p] # pc[p]]_vars

\* A clear has reset a consumed that commits had raised, beside an extended
\* limit.
C16_Witness ==
  \E p, q \in Procs :
    /\ kind[p] \in ClearKinds /\ Has(log[p], "clear")
    /\ kind[q] = "chat" /\ Has(log[q], "increment") /\ result[q].tokensAdded > 0
    /\ db.used = 0

\* C17: a commit step is never refused on account of the limit: the append
\* and the increment either succeed, the increment adding the whole token
\* count to consumed, or fail by a failure of the store that changes
\* nothing, whatever consumed and the limit are.
C17_IncrementNotLimited ==
  [][\A p \in Procs :
       /\ (pc[p] = "insert" /\ pc'[p] # "insert")
          => \/ pc'[p] = "update" /\ Len(db'.chats) = Len(db.chats) + 1
             \/ failures' = failures + 1 /\ failedAt'[p] = "append" /\ db' = db
       /\ (pc[p] = "update" /\ pc'[p] # "update")
          => \/ /\ pc'[p] = "usage"
                /\ db'.used = db.used + loc[p].tokens
                /\ result'[p].tokensAdded = loc[p].tokens
             \/ failures' = failures + 1 /\ failedAt'[p] = "increment" /\ db' = db]_vars

\* One commit took consumed above the limit and a second one was added in
\* full on top of it.
C17_Witness ==
  \E p, q \in Procs :
    /\ p # q /\ Has(log[p], "increment") /\ Has(log[q], "increment")
    /\ result[p].tokensAdded > db.limit /\ result[q].tokensAdded > 0
    /\ db.used = result[p].tokensAdded + result[q].tokensAdded

\* C18: requests being served one at a time, a request is at its model call
\* or at a commit step only if consumed was below the limit when it arrived,
\* which is then still the case.
C18_ExceededNeverGenerates ==
  \A p \in Procs :
    (kind[p] = "chat" /\ pc[p] \in {"chatGen", "insert", "update"})
    => ~isTokenLimitExceeded(db)

ChatDone(p, tokens) ==
  /\ kind[p] = "chat" /\ pc[p] = "done" /\ result[p].status = "ok"
  /\ result[p].tokensAdded = tokens

ExtendDone(p, amount) ==
  /\ kind[p] \in ExtendKinds /\ pc[p] = "done" /\ result[p].status = "ok"
  /\ result[p].amountAdded = amount

Committed(h, tokens) == h.kind = "chat" /\ h.status = "ok" /\ h.amount = tokens

Extended(h, amount) == h.kind \in ExtendKinds /\ h.status = "ok" /\ h.amount = amount

\* C19: from {consumed 0, limit 10000}, a commit of 4000 gives {4000, 10000};
\* an extend of 5000 after it reports previousLimit 10000 and newLimit 15000
\* and the limit is not exceeded; a commit of 11000 after that gives
\* {15000, 15000}, and the limit is then exceeded.
C19_Scenario ==
  \A p \in Procs :
    /\ (history = <<>> /\ ChatDone(p, 4000))
       => db.used = 4000 /\ db.limit = 10000
    /\ (/\ Len(history) = 1 /\ Committed(history[1], 4000)
        /\ ExtendDone(p, 5000))
       => /\ result[p].previousLimit = 10000 /\ result[p].newLimit = 15000
          /\ db.used = 4000 /\ db.limit = 15000
          /\ ~isTokenLimitExceeded(db)
    /\ (/\ Len(history) = 2 /\ Committed(history[1], 4000)
        /\ Extended(history[2], 5000) /\ ChatDone(p, 11000))
       => /\ db.used = 15000 /\ db.limit = 15000
          /\ isTokenLimitExceeded(db)

\* The three requests of the scenario have been served in this order.
C19_Witness ==
  \E p \in Procs :
    /\ Len(history) = 2 /\ Committed(history[1], 4000)
    /\ Extended(history[2], 5000) /\ ChatDone(p, 11000)
    /\ Len(db.chats) = 2

\* C20: the token count of a commit is the totalTokenCount the model
\* supplied, whatever its value, and without one the estimate
\* ceil(length(prompt + response) / 4) over the concatenation.
C20_AuthoritativeCount ==
  \A p \in Procs :
    (kind[p] = "chat" /\ pc[p] \in {"update", "usage"})
    => loc[p].tokens = IF loc[p].total # Null THEN loc[p].total
                       ELSE simpleTokenEstimate(loc[p].msg \o loc[p].resp)

\* ------------------------------------------------- registry properties
Registered(call) == DOMAIN call.before

\* The handles of the registry the operation found CLOSED or CLOSING.
Dead(call) ==
  { c \in Registered(call) : call.states[c] \in {"CLOSED", "CLOSING"} }

\* The handles of the registry the operation found OPEN.
Open(call) == { c \in Registered(call) : call.states[c] = "OPEN" }

C22_OneAttemptPerOpen ==
  lastCall.op \in {"broadcastToAll", "serverBroadcastToAll"}
    => /\ \A c \in Conns :
            lastCall.pass.attempts[c] = IF c \in Open(lastCall) THEN 1 ELSE 0
       /\ lastCall.pass.delivered = Open(lastCall) \ lastCall.failed
       /\ \A c \in Open(lastCall) \ lastCall.failed : received[c] = lastCall.data
       /\ lastCall.returned = Cardinality(Open(lastCall) \ lastCall.failed)

\* A pass in which the send to one OPEN handle threw, another OPEN handle was
\* sent the payload, and a third handle of the registry was not OPEN.
C22_Witness ==
  /\ lastCall.op = "broadcastToAll"
  /\ lastCall.failed # {}
  /\ lastCall.pass.delivered # {}
  /\ Dead(lastCall) # {}
  /\ \E c \in lastCall.failed, d \in lastCall.pass.delivered :
       c < d /\ lastCall.pass.attempts[c] = 1

\* C23: broadcastToOthers never sends to the excluded handle, attempts
\* exactly one send to every other handle the registry holds in state OPEN
\* and none to the rest, and returns the number of sends that did not throw.
C23_OthersExcludesAndCounts ==
  lastCall.op = "broadcastToOthers"
    => /\ lastCall.pass.attempts[lastCall.ws] = 0
       /\ lastCall.ws \notin lastCall.pass.delivered
       /\ \A c \in Conns \ {lastCall.ws} :
            lastCall.pass.attempts[c] = IF c \in Open(lastCall) THEN 1 ELSE 0
       /\ lastCall.pass.delivered = (Open(lastCall) \ {lastCall.ws}) \ lastCall.failed
       /\ lastCall.returned = Cardinality(lastCall.pass.delivered)

\* The excluded handle was itself OPEN in the registry; of the two others one
\* send threw and one did not.
C23_Witness ==
  /\ lastCall.op = "broadcastToOthers"
  /\ lastCall.ws \in Open(lastCall)
  /\ Cardinality(Open(lastCall)) = 3
  /\ Cardinality(lastCall.failed \ {lastCall.ws}) = 1
  /\ lastCall.returned = 1

BroadcastOps == {"broadcastToAll", "broadcastToOthers", "serverBroadcastToAll"}

\* C24: when a broadcast operation has met a CLOSED or CLOSING handle in the
\* registry, no CLOSED or CLOSING handle is left in the registry when the
\* operation returns.
C24_BroadcastCleansUp ==
  (lastCall.op \in BroadcastOps /\ Dead(lastCall) # {})
    => \A c \in DOMAIN wsClients : readyState[c] \notin {"CLOSED", "CLOSING"}

\* The frames that cannot be parsed or whose type no case handles.
Unhandled == {"garbage", "null", "unknown"}

\* C25: a frame that cannot be parsed, or that carries no handled type, sent
\* over an OPEN handle whose sends do not throw, is answered with exactly one
\* message, of type error, to its sender, and leaves the registry's
\* membership as it was.
C25_UnhandledAnsweredOnce ==
  ( /\ lastCall.op = "message"
    /\ lastCall.frame \in Unhandled
    /\ lastCall.states[lastCall.ws] = "OPEN"
    /\ lastCall.failed = {} )
  => /\ lastCall.pass.attempts[lastCall.ws] = 1
     /\ lastCall.pass.delivered = {lastCall.ws}
     /\ received[lastCall.ws] = Message("error")
     /\ DOMAIN wsClients = Registered(lastCall)

BroadcastsDone == \A p \in Procs : bcast[p].pc \notin {"usage", "chats"}

\* C26: once no request and no broadcastUpdate is under way, the last update
\* a subscriber that is still OPEN has been sent carries the consumed and the
\* limit of the ledger and a recent history of the log as they now are.
C26_LastUpdateIsFinal ==
  \A ws \in DOMAIN wsClients :
    ( /\ AllQuiet
      /\ BroadcastsDone
      /\ readyState[ws] = "OPEN"
      /\ received[ws].type = "update" )
    => /\ received[ws].used = db.used
       /\ received[ws].limit = db.limit
       /\ received[ws].chats \in getRecentChats(db, 20)

\* The handles a sweep found idle for longer than its threshold.
Idle(call) ==
  { c \in Registered(call) :
      call.at - call.before[c].lastActivity > call.threshold }

\* C27: cleanupInactiveConnections(threshold) closes and removes from the
\* registry exactly the handles with now - lastActivity > threshold, leaves
\* every other handle registered, with its lastActivity and its state (OPEN
\* stays OPEN) untouched, and returns the number of handles it removed.
C27_SweepRemovesExactlyIdle ==
  lastCall.op = "sweep"
    => /\ DOMAIN wsClients = Registered(lastCall) \ Idle(lastCall)
       /\ \A c \in Idle(lastCall) : readyState[c] \in {"CLOSING", "CLOSED"}
       /\ \A c \in Registered(lastCall) \ Idle(lastCall) :
            /\ wsClients[c] = lastCall.before[c]
            /\ readyState[c] = lastCall.states[c]
       /\ lastCall.returned = Cardinality(Idle(lastCall))

\* A sweep removed an OPEN handle that had been idle for longer than the
\* threshold and kept an OPEN handle idle for exactly the threshold.
C27_Witness ==
  /\ lastCall.op = "sweep"
  /\ lastCall.returned = 1
  /\ \E c \in Idle(lastCall) :
       lastCall.states[c] = "OPEN" /\ readyState[c] = "CLOSING"
  /\ \E d \in DOMAIN wsClients :
       /\ lastCall.at - wsClients[d].lastActivity = lastCall.threshold
       /\ readyState[d] = "OPEN"

\* Of any two rows the one appended later comes first (of two rows that are
\* in the log together the later one has the larger id).
NewestFirst(rows) ==
  \A i, j \in 1..Len(rows) : i < j => rows[i].id > rows[j].id

\* C28: getRecentChats(limit) returns at most limit entries, a later-appended
\* entry always before an earlier-appended one, and the empty sequence when
\* the log is empty; called without a limit it returns at most 10.
C28_RecentNewestFirst ==
  /\ \A limit \in 0..(Len(db.chats) + 1) :
       \A rows \in getRecentChats(db, limit) :
         /\ Len(rows) <= limit
         /\ NewestFirst(rows)
         /\ db.chats = <<>> => rows = <<>>
  /\ \A rows \in getRecentChats(db, DefaultLimit) : Len(rows) <= 10

\* The entry the step appends, if it appends one.
Appends == Len(db'.chats) > Len(db.chats)
Appended == db'.chats[Len(db'.chats)]

\* C29 as stated: every append is given an id greater than every id given
\* before it, over the whole run.
C29_IdsIncreaseAlways ==
  [][Appends => Appended.id > issued]_vars

\* C29: every append is given an id greater than that of every entry in the
\* log, that is of every entry appended since the last clear; a clear resets
\* the sequence, so the first append to the emptied log is given the id 1.
C29_IdsIncreaseBetweenClears ==
  [][Appends =>
       /\ \A i \in 1..Len(db.chats) : Appended.id > db.chats[i].id
       /\ db.chats = <<>> => Appended.id = 1]_vars

\* An entry was appended, a clear succeeded, and the next entry appended was
\* given the id 1 again.
C29_Witness ==
  /\ Len(history) = 2
  /\ history[1].kind = "chat" /\ history[1].status = "ok"
  /\ history[2].kind \in ClearKinds /\ history[2].status = "ok"
  /\ issued = 1
  /\ Len(db.chats) = 1 /\ db.chats[1].id = 1

\* The transport has reported the close of the handle and the close handler
\* has run.
CloseHandled(c) == readyState[c] = "CLOSED" /\ c \notin closeEvents

\* C30: a handle whose close has been handled is not in the registry, and a
\* broadcast attempts no send to a handle that is not in the registry, so
\* such a handle is never sent a broadcast again; the close handler removes
\* its own handle and leaves every other entry as it was, and for a handle
\* that is already gone (removed by a cleanup pass) it changes nothing.
C30_ClosedStaysOut ==
  /\ \A c \in Conns : CloseHandled(c) => c \notin DOMAIN wsClients
  /\ lastCall.op \in BroadcastOps
       => \A c \in Conns \ Registered(lastCall) :
            lastCall.pass.attempts[c] = 0 /\ c \notin lastCall.pass.delivered
  /\ lastCall.op = "close"
       => /\ wsClients = Without(lastCall.before, {lastCall.ws})
          /\ lastCall.ws \notin Registered(lastCall) => wsClients = lastCall.before

\* The close of a handle that a cleanup pass had already removed was handled
\* while another handle was registered.
C30_Witness ==
  /\ lastCall.op = "close"
  /\ lastCall.ws \notin Registered(lastCall)
  /\ CloseHandled(lastCall.ws)
  /\ DOMAIN wsClients # {}
  /\ wsClients = lastCall.before

\* C31: sendToClient returns false and attempts no send when no entry of
\* the registry has the identifier or the entry's handle is not OPEN; it
\* returns true only when the message was sent to the OPEN handle with that
\* identifier, and then it does.
C31_DirectSendOnlyToOpen ==
  lastCall.op = "sendToClient"
    => /\ lastCall.ws \notin Open(lastCall)
            => /\ ~lastCall.ok
               /\ \A c \in Conns : lastCall.pass.attempts[c] = 0
               /\ lastCall.pass.delivered = {}
       /\ lastCall.ok
            => /\ lastCall.ws \in Open(lastCall)
               /\ lastCall.pass.delivered = {lastCall.ws}
               /\ received[lastCall.ws] = lastCall.data
       /\ (lastCall.ws \in Open(lastCall) /\ lastCall.failed = {}) => lastCall.ok

\* The identifier was that of a registered handle whose transport was
\* closing: the call returned false.
C31_Witness ==
  /\ lastCall.op = "sendToClient"
  /\ lastCall.ws \in Registered(lastCall)
  /\ lastCall.states[lastCall.ws] = "CLOSING"
  /\ ~lastCall.ok
  /\ received[lastCall.ws] # lastCall.data

Built(p) == kind[p] = "stream" /\ sink[p] # "none"

Ended(p) == Built(p) /\ pc[p] = "done"

\* COMPLETED: the caller's stream was closed after the commit.
Completed(p) ==
  /\ sink[p] = "closed"
  /\ result[p].status = "ok"
  /\ log[p] = <<"append", "increment", "broadcast">>

\* FAILED: the caller's stream was errored.
Failed(p) == sink[p] = "errored" /\ result[p].status = "error"

\* The caller had cancelled its stream: the catch block ran, and
\* controller.error() left the cancelled stream as it was.
Abandoned(p) == sink[p] = "cancelled" /\ result[p].status = "error"

\* C33 as stated: a streaming run that has ended has closed the caller's
\* stream after the commit or has errored it.
C33_ClosedOrErrored ==
  \A p \in Procs : Ended(p) => (Completed(p) \/ Failed(p))

\* C33, amended: a streaming run always ends, in exactly one of COMPLETED,
\* FAILED or, when the caller had cancelled, with the stream left cancelled;
\* the store is written only by the INSERT and the UPDATE that follow the
\* exhausted model stream, and never after the run has ended.
C33_OneOutcomeWritesAtCommit ==
  /\ [](Ended(First) =>
          \/ Completed(First) /\ ~Failed(First) /\ ~Abandoned(First)
          \/ Failed(First) /\ ~Completed(First) /\ ~Abandoned(First)
          \/ Abandoned(First) /\ ~Completed(First) /\ ~Failed(First))
  /\ [](pc[First] \in {"insert", "update"} => failedAt[First] = "none")
  /\ [][(db' # db \/ log'[First] # log[First])
          => /\ pc[First] \in {"insert", "update", "usage"}
             /\ db' # db => pc[First] \in {"insert", "update"}]_vars
  /\ (Built(First) ~> Ended(First))

\* A run in json format whose caller cancelled after the first chunk ended
\* with the stream cancelled and nothing written.
C33_Witness ==
  /\ Ended(First)
  /\ Abandoned(First)
  /\ loc[First].fmt = "json"
  /\ Len(sent[First]) = 1
  /\ db.chats = <<>>

\* ------------------------------------- administrative WebSocket requests
\* The handler of an extendLimit or clearDatabase request has just answered
\* success.
Succeeded(call) ==
  call.op \in {"extendLimitResponse", "clearDatabaseResponse"} /\ call.ok

\* C34: when a WebSocket extendLimit or clearDatabase request succeeds, the
\* first send is the direct response to the requester, every later send is
\* the update to another handle, and the requester is not sent the update.
C34_ResponseBeforeBroadcast ==
  Succeeded(lastCall)
    => /\ lastCall.wire[1] = Wire(lastCall.ws, lastCall.op)
       /\ \A i \in 2..Len(lastCall.wire) :
            /\ lastCall.wire[i].type = "update"
            /\ lastCall.wire[i].to # lastCall.ws
       /\ lastCall.pass.attempts[lastCall.ws] = 0
       /\ received[lastCall.ws] # lastCall.data
       /\ \A c \in lastCall.pass.delivered : received[c] = lastCall.data

\* A clear succeeded for an OPEN requester while two other handles were
\* OPEN: the response went out first, then the two updates.
C34_Witness ==
  /\ Succeeded(lastCall)
  /\ lastCall.op = "clearDatabaseResponse"
  /\ lastCall.states[lastCall.ws] = "OPEN"
  /\ Len(lastCall.wire) = 3
  /\ received[lastCall.ws].type = "clearDatabaseResponse"
  /\ received[lastCall.ws].success

\* C35: an extend or clear request that was answered with a failure has
\* left the limit, consumed and the history log as they were when it arrived.
C35_FailureChangesNothing ==
  \A p \in Procs :
    (/\ kind[p] \in {"extendWs", "clearWs"}
     /\ pc[p] = "done"
     /\ result[p].status = "error")
      => /\ db.limit = atCall[p].limit
         /\ db.used = atCall[p].used
         /\ db.chats = atCall[p].chats

\* C36: clears that overlapped and have all returned, nothing else having run
\* and no statement having met a storage error: if one reported success the
\* history is empty and consumed is 0, and if all reported failure the
\* history and consumed are as they were when the clears were called.
C36_FailedBeginUndoesNothing ==
  (/\ \A q \in Procs : kind[q] \in ClearKinds \cup {"none"} /\ ~InFlight(q)
   /\ \E q \in Procs : kind[q] \in ClearKinds /\ pc[q] = "done"
   /\ failures = 0)
    => /\ (\E p \in Procs : result[p].status = "ok")
            => db.chats = <<>> /\ db.used = 0
       /\ (\A p \in Procs : pc[p] = "done" => result[p].status = "error")
            => \A p \in Procs :
                 pc[p] = "done"
                   => db.chats = atCall[p].chats /\ db.used = atCall[p].used

\* The lines of the response that carry done: true: the completion line and
\* the error line of the catch block.
DoneLines(p) ==
  { i \in 1..Len(sent[p]) : sent[p][i].type \in {"done", "error"} }

\* C37: a streaming run in json format whose caller did not cancel has, when
\* it ends, sent exactly one done:true line, as its last line; a completion
\* line was sent after the INSERT and the UPDATE of the run and reports a
\* totalTokensUsed of at least the run's tokensAdded.
C37_DoneLineAfterCommit ==
  (Ended(First) /\ loc[First].fmt = "json" /\ sink[First] \in {"closed", "errored"})
    => /\ DoneLines(First) = {Len(sent[First])}
       /\ sent[First][Len(sent[First])].type = "done"
            => /\ log[First] = <<"append", "increment", "broadcast">>
               /\ sent[First][Len(sent[First])].tokensAdded = result[First].tokensAdded
               /\ sent[First][Len(sent[First])].totalTokensUsed
                    >= sent[First][Len(sent[First])].tokensAdded

\* ------------------------------------------------------ update payloads
\* The payload pairs the usage of s with the recent chats of t.
Pairs(data, s, t) ==
  /\ data.used = s.used
  /\ data.limit = s.limit
  /\ data.chats \in getRecentChats(t, 20)

C39_DroppedWereClosed ==
  shutdown.pc = "returned"
    => \A c \in shutdown.dropped : c \in shutdown.asked \/ readyState[c] # "OPEN"

====
